---- MODULE Spec2Model ----
(***************************************************************************)
(* Model of contracts/src/PaymentSubscription.sol: the recurring-billing   *)
(* engine (asset registry, plan store, subscription lifecycle, charge      *)
(* engine, one-time payments) against an external token ledger.            *)
(*                                                                         *)
(* Every external function is one action.  A call that reverts leaves the  *)
(* contract state as it was and is recorded in `last` with ok = FALSE.     *)
(* Time is counted in days (OneDay = 1); bytes32 identifiers are small     *)
(* integers, 0 being the all-zero identifier; the subscription identifier  *)
(* keccak256(planId, sender, timestamp, nonce) is represented by its       *)
(* nonce, which is what makes it unique.                                   *)
(*                                                                         *)
(* The module also models the transfer watcher of src/adapters/web3.ts     *)
(* (createTransferWatcher): its state, its public methods and the          *)
(* callbacks of its timers, RPC requests and sockets, one action each.     *)
(***************************************************************************)
EXTENDS Integers, Sequences, FiniteSets, TLC

\* ------------------------------------------------------------------------
\* Bounds of the model
\* ------------------------------------------------------------------------
\* The watcher: the highest block of the chain, the doCheck calls and polling
\* loops that may be under way at once, and the sockets ever opened.
MaxHead == 4
MaxTasks == 2
MaxSockets == 2
MaxTime == 2
MaxAmount == 1
MaxInterval == 1
MaxSupply == 2
MaxTrial == 1
\* The largest uint256, scaled: offset + limit beyond it is an overflow.
MaxUint == 3

\* ------------------------------------------------------------------------
\* Program constants
\* ------------------------------------------------------------------------
\* `1 days`, the shortest plan interval, in the model's unit of time.
OneDay == 1
\* The batch limit; the contract's is 100, and the model keeps its check at
\* a limit its batches can exceed.
MAX_BATCH_SIZE == 2

NoAddr == "0x0"
Owner == "O"
Addr == {"O", "M", "U"}
Subscribers == {"U"}
Native == NoAddr
Tok == "T"
Tokens == {Native, Tok}
\* A second token, for the registry only.
Tok2 == "T2"
Assets == Tokens \cup {Tok2}

Statuses == {"Active", "Paused", "Canceled", "Expired"}
Reasons == {"Success", "NotDue", "InsufficientBalance", "NotApproved", "Paused", "Canceled", "PlanInactive"}

\* The identifiers in use; 0 is the all-zero bytes32 value, which no
\* subscription ever gets.
PlanIds == {0, 1}
SubIdSpace == {0, 1}
OrderIds == {0, 1}

\* Default values of the storage mappings (all-zero structs).
ZeroPlan ==
  [id |-> 0, amount |-> 0, token |-> NoAddr, interval |-> 0, merchant |-> NoAddr,
   active |-> FALSE, subscriberCount |-> 0, createdAt |-> 0]

ZeroSub ==
  [id |-> 0, planId |-> 0, subscriber |-> NoAddr, status |-> "Active", startTime |-> 0,
   currentPeriodStart |-> 0, currentPeriodEnd |-> 0, cancelAtPeriodEnd |-> FALSE,
   pausedAt |-> 0, paymentCount |-> 0]

ZeroPayment ==
  [orderId |-> 0, payer |-> NoAddr, merchant |-> NoAddr, amount |-> 0, token |-> NoAddr,
   timestamp |-> 0, paid |-> FALSE]

VARIABLES
  now,                  \* block.timestamp
  paused,               \* Pausable._paused
  tokenSupported,       \* token => supported
  supportedTokens,      \* address[]
  plans,                \* planId => Plan
  planIds,              \* bytes32[]
  subscriptions,        \* subscriptionId => Subscription
  subscriptionIds,      \* bytes32[]
  userSubscriptions,    \* user => subscriptionIds
  planSubscriptions,    \* planId => subscriptionIds
  subscriptionPayments, \* subscriptionId => PaymentRecord[]
  payments,             \* orderId => Payment
  subscriptionNonce,    \* _subscriptionNonce
  bal,                  \* token ledger: balanceOf
  allow,                \* token ledger: allowance(holder, this)
  cancelRequested,      \* history: the subscriptions whose deferred cancellation was accepted
  _status,              \* ReentrancyGuard._status
  inFlight,             \* the charge or batchCharge that is inside a ledger pull, or NoFrame
  last                  \* the call made in the latest step: arguments, outcome, events, transfers

\* The transfer watcher (createTransferWatcher).
VARIABLES
  mode,                 \* config.mode: "auto", "websocket" or "polling"
  wssUrl,               \* config.wssUrl is given
  running,              \* running
  currentMode,          \* currentMode
  timer,                \* timer: "none" (undefined), "pending" (its timeout is due) or "stale"
  timeouts,             \* the setTimeout(poll) callbacks that are due
  lastBlockNumber,      \* lastBlockNumber
  ws,                   \* ws: the socket it refers to, 0 for null
  sockets,              \* the WebSocket objects: "none", "connecting", "open", "closing", "closed"
  wsReconnectTimer,     \* wsReconnectTimer: "none", "pending" or "stale"
  reconnects,           \* the reconnect callbacks that are due
  head,                 \* the block number eth_blockNumber answers
  tasks,                \* the doCheck calls under way, each at its await
  deliveries            \* per block, how often its transfer reached the callbacks (up to 2)

watcherVars == <<mode, wssUrl, running, currentMode, timer, timeouts, lastBlockNumber, ws, sockets,
                 wsReconnectTimer, reconnects, head, tasks, deliveries>>

registryVars == <<tokenSupported, supportedTokens>>
planVars == <<plans, planIds>>
subVars == <<subscriptions, subscriptionIds, userSubscriptions, planSubscriptions,
            subscriptionPayments, subscriptionNonce, cancelRequested>>
ledgerVars == <<bal, allow>>
guardVars == <<_status, inFlight>>
vars == <<now, paused, tokenSupported, supportedTokens, plans, planIds, subscriptions, subscriptionIds,
          userSubscriptions, planSubscriptions, subscriptionPayments, payments, subscriptionNonce, bal, allow, cancelRequested,
          _status, inFlight, last, watcherVars>>
contractVars == <<now, paused, registryVars, planVars, subVars, payments, ledgerVars, guardVars, last>>

\* The record of a call that returned: its arguments, return value, emitted
\* events and the ledger transfers it made.
Returned(op, arg, ret, events, moved) ==
  [op |-> op, ok |-> TRUE, err |-> "", arg |-> arg, ret |-> ret, events |-> events, moved |-> moved]

\* The record of a call that reverted: nothing but `last` changes, and the
\* receipt carries the error only.
Reverted(op, arg, err) ==
  [op |-> op, ok |-> FALSE, err |-> err, arg |-> <<>>, ret |-> FALSE, events |-> <<>>, moved |-> <<>>]

\* No call was made in the latest step (the clock or the ledger moved).
NoCall == Returned("", <<>>, FALSE, <<>>, <<>>)

\* ReentrancyGuard: the two values of _status.
_NOT_ENTERED == 1
_ENTERED == 2

\* No call is inside a ledger pull.  A frame holds the call, the items of
\* the batch (one item for charge), the item whose pull is running, and the
\* results, events and transfers of the items before it.
NoFrame == [op |-> "", arg |-> <<>>, ids |-> <<>>, i |-> 0, results |-> <<>>, events |-> <<>>, moved |-> <<>>]

\* A contract without the reentrancy check.
nonReentrantOff(status) == ""

\* _nonReentrantBefore: the error of a nonReentrant function entered while
\* another one is running, or "".
nonReentrantError(status) ==
  IF ~(status # _ENTERED) THEN "ReentrancyGuard: reentrant call" ELSE ""

\* A guard that is never released.
_nonReentrantAfterKeeps(status) == status

\* _nonReentrantAfter: the value nonReentrant leaves in _status.
_nonReentrantAfter(status) == _NOT_ENTERED

\* _status after a nonReentrant call that ran from entry to exit in one
\* step: entered and released, or as it was found when the call reverted.
guardAfter(reverted) == IF reverted THEN _status ELSE _nonReentrantAfter(_ENTERED)

\* ------------------------------------------------------------------------
\* The transfer watcher: state after createTransferWatcher
\* ------------------------------------------------------------------------
confirmations == 1

\* No doCheck runs in this slot.
NoTask == [pc |-> "done", loop |-> FALSE, from |-> 0, to |-> 0]

\* A watcher as createTransferWatcher returns it, for a config.mode among
\* modes and a config.wssUrl among urls: "" when absent, "wss://node", or
\* "not a url", on which new WebSocket throws a SyntaxError.
WatcherInit(modes, urls) ==
  /\ mode \in modes
  /\ wssUrl \in urls
  /\ running = FALSE
  /\ currentMode = "stopped"
  /\ timer = "none"
  /\ timeouts = 0
  /\ lastBlockNumber = 0
  /\ ws = 0
  /\ sockets = [i \in 1..MaxSockets |-> "none"]
  /\ wsReconnectTimer = "none"
  /\ reconnects = 0
  /\ head = 1 + confirmations
  /\ tasks = [i \in 1..MaxTasks |-> NoTask]
  /\ deliveries = [b \in 1..MaxHead |-> 0]


\* ------------------------------------------------------------------------
\* The transfer watcher: doCheck, poll and the sockets
\* ------------------------------------------------------------------------
\* Every block carries one transfer to the watched address, so that a scan
\* of the blocks from..to delivers one event per block. subscriptionIds and
\* the callback lists are left out: no branch of the code below reads them.

getEffectiveMode ==
  IF mode = "websocket" THEN "websocket"
  ELSE IF mode = "polling" THEN "polling"
  ELSE IF wssUrl # "" THEN "websocket" ELSE "polling"

FreeSlots == {i \in 1..MaxTasks : tasks[i].pc = "done"}

\* The tasks once the first free slot holds the given one. A doCheck begins
\* at "awaitBlock", its eth_blockNumber request; loop says whether poll
\* awaits it.
Spawned(task) ==
  [tasks EXCEPT ![CHOOSE i \in FreeSlots : \A j \in FreeSlots : i <= j] = task]

\* The polling loops under way: a poll awaiting its doCheck, or a timeout
\* that will call poll.
Loops == Cardinality({i \in 1..MaxTasks : tasks[i].pc # "done" /\ tasks[i].loop}) + timeouts

\* poll() up to its await, called while running has the value r.
poll(r) ==
  IF ~r THEN UNCHANGED tasks
  ELSE /\ FreeSlots # {}
       /\ tasks' = Spawned([pc |-> "awaitBlock", loop |-> TRUE, from |-> 0, to |-> 0])

\* The events of the blocks from..to reach the 'transfer' callbacks.
Delivered(from, to) ==
  [b \in 1..MaxHead |-> IF from <= b /\ b <= to /\ deliveries[b] < 2
                         THEN deliveries[b] + 1 ELSE deliveries[b]]

\* The doCheck in slot i returns; poll, if it awaited it, sets the timer.
finish(i) ==
  /\ tasks' = [tasks EXCEPT ![i] = NoTask]
  /\ IF tasks[i].loop /\ running
       THEN timer' = "pending" /\ timeouts' = timeouts + 1
       ELSE UNCHANGED <<timer, timeouts>>

\* startWebSocket(), called while running has the value r.
startWebSocket(r) ==
  IF wssUrl = "" THEN UNCHANGED <<ws, sockets, currentMode, tasks>>
  ELSE IF wssUrl # "not a url"
    THEN LET FreeSockets == {i \in 1..MaxSockets : sockets[i] = "none"}
             socket == CHOOSE i \in FreeSockets : \A j \in FreeSockets : i <= j
         IN /\ FreeSockets # {}
            /\ ws' = socket
            /\ sockets' = [sockets EXCEPT ![socket] = "connecting"]
            /\ UNCHANGED <<currentMode, tasks>>
    ELSE /\ UNCHANGED <<ws, sockets>>
         /\ IF r /\ mode # "websocket"
              THEN currentMode' = "polling" /\ poll(r)
              ELSE UNCHANGED <<currentMode, tasks>>

\* start()
start ==
  /\ Loops < MaxTasks
  /\ IF running THEN UNCHANGED watcherVars
     ELSE /\ running' = TRUE
          /\ IF getEffectiveMode = "websocket" /\ wssUrl # ""
               THEN startWebSocket(TRUE)
               ELSE /\ currentMode' = "polling"
                    /\ poll(TRUE)
                    /\ UNCHANGED <<ws, sockets>>
          /\ UNCHANGED <<mode, wssUrl, timer, timeouts, lastBlockNumber, wsReconnectTimer,
                         reconnects, head, deliveries>>
  /\ UNCHANGED contractVars

\* stop(), stopWebSocket() included.
stop ==
  /\ running' = FALSE
  /\ currentMode' = "stopped"
  /\ timer' = "none"
  /\ timeouts' = IF timer = "pending" THEN timeouts - 1 ELSE timeouts
  /\ wsReconnectTimer' = "none"
  /\ reconnects' = IF wsReconnectTimer = "pending" THEN reconnects - 1 ELSE reconnects
  /\ IF ws # 0
       THEN /\ sockets' = [sockets EXCEPT ![ws] = IF @ \in {"connecting", "open"} THEN "closing" ELSE @]
            /\ ws' = 0
       ELSE UNCHANGED <<ws, sockets>>
  /\ UNCHANGED <<mode, wssUrl, lastBlockNumber, head, tasks, deliveries>>
  /\ UNCHANGED contractVars

\* check()
check ==
  /\ FreeSlots # {}
  /\ tasks' = Spawned([pc |-> "awaitBlock", loop |-> FALSE, from |-> 0, to |-> 0])
  /\ UNCHANGED <<mode, wssUrl, running, currentMode, timer, timeouts, lastBlockNumber, ws, sockets,
                 wsReconnectTimer, reconnects, head, deliveries>>
  /\ UNCHANGED contractVars

\* A setTimeout(poll, pollInterval) comes due: the one timer holds (latest)
\* or an earlier one that no clearTimeout reached.
timerFires(latest) ==
  /\ IF latest THEN timer = "pending"
               ELSE timeouts > (IF timer = "pending" THEN 1 ELSE 0)
  /\ timeouts' = timeouts - 1
  /\ timer' = IF latest THEN "stale" ELSE timer
  /\ poll(running)
  /\ UNCHANGED <<mode, wssUrl, running, currentMode, lastBlockNumber, ws, sockets,
                 wsReconnectTimer, reconnects, head, deliveries>>
  /\ UNCHANGED contractVars

\* doCheck in slot i: getBlockNumber() answers, or fails, and the code runs
\* up to the next await or to its return.
blockNumberReturns(i, fails) ==
  /\ tasks[i].pc = "awaitBlock"
  /\ LET confirmedBlock == head - confirmations
     IN IF fails
          THEN finish(i) /\ UNCHANGED lastBlockNumber
          ELSE IF lastBlockNumber = 0
            THEN finish(i) /\ lastBlockNumber' = confirmedBlock
            ELSE IF confirmedBlock <= lastBlockNumber
              THEN finish(i) /\ UNCHANGED lastBlockNumber
              ELSE /\ tasks' = [tasks EXCEPT ![i] = [@ EXCEPT !.pc = "awaitScan",
                                                               !.from = lastBlockNumber + 1,
                                                               !.to = confirmedBlock]]
                   /\ UNCHANGED <<lastBlockNumber, timer, timeouts>>
  /\ UNCHANGED <<mode, wssUrl, running, currentMode, ws, sockets, wsReconnectTimer, reconnects,
                 head, deliveries>>
  /\ UNCHANGED contractVars

\* doCheck in slot i: the two scans of fromBlock..toBlock answer, or one fails.
scanReturns(i, fails) ==
  /\ tasks[i].pc = "awaitScan"
  /\ finish(i)
  /\ IF fails
       THEN UNCHANGED <<lastBlockNumber, deliveries>>
       ELSE /\ lastBlockNumber' = tasks[i].to
            /\ deliveries' = Delivered(tasks[i].from, tasks[i].to)
  /\ UNCHANGED <<mode, wssUrl, running, currentMode, ws, sockets, wsReconnectTimer, reconnects,
                 head>>
  /\ UNCHANGED contractVars

\* The chain grows by a block.
Mine ==
  /\ head < MaxHead
  /\ head' = head + 1
  /\ UNCHANGED <<mode, wssUrl, running, currentMode, timer, timeouts, lastBlockNumber, ws, sockets,
                 wsReconnectTimer, reconnects, tasks, deliveries>>
  /\ UNCHANGED contractVars

\* ws.onopen of socket i.
socketOpens(i) ==
  /\ sockets[i] = "connecting"
  /\ sockets' = [sockets EXCEPT ![i] = "open"]
  /\ currentMode' = "websocket"
  /\ UNCHANGED <<mode, wssUrl, running, timer, timeouts, lastBlockNumber, ws, wsReconnectTimer,
                 reconnects, head, tasks, deliveries>>
  /\ UNCHANGED contractVars

\* ws.onmessage of socket i with a newHeads notification of the head block,
\* up to its await of checkNativeTransfers.
socketMessage(i) ==
  /\ sockets[i] = "open"
  /\ IF head > lastBlockNumber
       THEN /\ FreeSlots # {}
            /\ tasks' = Spawned([pc |-> "awaitNative", loop |-> FALSE,
                                  from |-> IF lastBlockNumber > 0 THEN lastBlockNumber + 1 ELSE head,
                                  to |-> head])
       ELSE UNCHANGED tasks
  /\ UNCHANGED <<mode, wssUrl, running, currentMode, timer, timeouts, lastBlockNumber, ws, sockets,
                 wsReconnectTimer, reconnects, head, deliveries>>
  /\ UNCHANGED contractVars

\* ws.onmessage in slot i: checkNativeTransfers answers, or fails.
nativeReturns(i, fails) ==
  /\ tasks[i].pc = "awaitNative"
  /\ tasks' = [tasks EXCEPT ![i] = NoTask]
  /\ IF fails
       THEN UNCHANGED <<lastBlockNumber, deliveries>>
       ELSE /\ lastBlockNumber' = tasks[i].to
            /\ deliveries' = Delivered(tasks[i].from, tasks[i].to)
  /\ UNCHANGED <<mode, wssUrl, running, currentMode, timer, timeouts, ws, sockets,
                 wsReconnectTimer, reconnects, head>>
  /\ UNCHANGED contractVars

\* ws.onclose of socket i: the connection failed, was dropped, or was closed.
socketCloses(i) ==
  /\ sockets[i] \in {"connecting", "open", "closing"}
  /\ sockets' = [sockets EXCEPT ![i] = "closed"]
  /\ IF running
       THEN wsReconnectTimer' = "pending" /\ reconnects' = reconnects + 1
       ELSE UNCHANGED <<wsReconnectTimer, reconnects>>
  /\ UNCHANGED <<mode, wssUrl, running, currentMode, timer, timeouts, lastBlockNumber, ws,
                 head, tasks, deliveries>>
  /\ UNCHANGED contractVars

\* A reconnect timeout comes due: the one wsReconnectTimer holds (latest) or
\* an earlier one.
reconnectFires(latest) ==
  /\ IF latest THEN wsReconnectTimer = "pending"
               ELSE reconnects > (IF wsReconnectTimer = "pending" THEN 1 ELSE 0)
  /\ reconnects' = reconnects - 1
  /\ wsReconnectTimer' = IF latest THEN "stale" ELSE wsReconnectTimer
  /\ IF running THEN startWebSocket(TRUE) ELSE UNCHANGED <<ws, sockets, currentMode, tasks>>
  /\ UNCHANGED <<mode, wssUrl, running, timer, timeouts, lastBlockNumber, head, deliveries>>
  /\ UNCHANGED contractVars

\* The contract after its constructor.
Deployed ==
  /\ now = 0
  /\ paused = FALSE
  /\ tokenSupported = [t \in Assets |-> t = Native]
  /\ supportedTokens = <<Native>>
  /\ plans = [p \in PlanIds |-> ZeroPlan]
  /\ planIds = <<>>
  /\ subscriptions = [s \in SubIdSpace |-> ZeroSub]
  /\ subscriptionIds = <<>>
  /\ userSubscriptions = [a \in Addr |-> <<>>]
  /\ planSubscriptions = [p \in PlanIds |-> <<>>]
  /\ subscriptionPayments = [s \in SubIdSpace |-> <<>>]
  /\ payments = [o \in OrderIds |-> ZeroPayment]
  /\ subscriptionNonce = 0
  /\ cancelRequested = {}
  /\ _status = _NOT_ENTERED
  /\ inFlight = NoFrame
  /\ bal = [a \in Subscribers |-> 0]
  /\ allow = [a \in Subscribers |-> 0]
  /\ last = Returned("constructor", <<>>, TRUE, <<>>, <<>>)

\* The state after construction.
\* The watcher is that of the default config, without a wssUrl.
Init == WatcherInit({"auto"}, {""}) /\ Deployed

NextWatcher ==
  \/ start
  \/ stop
  \/ check
  \/ \E latest \in BOOLEAN : timerFires(latest)
  \/ \E i \in 1..MaxTasks, fails \in BOOLEAN : blockNumberReturns(i, fails)
  \/ \E i \in 1..MaxTasks, fails \in BOOLEAN : scanReturns(i, fails)
  \/ \E i \in 1..MaxTasks, fails \in BOOLEAN : nativeReturns(i, fails)
  \/ Mine
  \/ \E i \in 1..MaxSockets : socketOpens(i)
  \/ \E i \in 1..MaxSockets : socketMessage(i)
  \/ \E i \in 1..MaxSockets : socketCloses(i)
  \/ \E latest \in BOOLEAN : reconnectFires(latest)

\* Every watcher the configs make, beside a freshly deployed contract.
InitWatcher ==
  /\ WatcherInit({"auto", "websocket", "polling"}, {"", "wss://node", "not a url"})
  /\ Deployed

SpecWatcher == InitWatcher /\ [][NextWatcher]_vars

\* ------------------------------------------------------------------------
\* Environment: the clock and the token ledger
\* ------------------------------------------------------------------------
Tick ==
  /\ now < MaxTime
  /\ now' = now + 1
  /\ last' = NoCall
  /\ UNCHANGED <<watcherVars, guardVars, paused, registryVars, planVars, subVars, payments, ledgerVars>>

\* The tokens the followed holders have between them.
RECURSIVE Held(_, _)
Held(b, holders) ==
  IF holders = {} THEN 0
  ELSE LET a == CHOOSE x \in holders : TRUE IN b[a] + Held(b, holders \ {a})

\* Somebody acquires one token.
Mint(a) ==
  /\ Held(bal, DOMAIN bal) < MaxSupply
  /\ bal' = [bal EXCEPT ![a] = @ + 1]
  /\ last' = NoCall
  /\ UNCHANGED <<watcherVars, guardVars, now, paused, registryVars, planVars, subVars, payments, allow>>

\* A holder sets the amount the contract may pull from it.
Approve(a, v) ==
  /\ allow[a] # v
  /\ allow' = [allow EXCEPT ![a] = v]
  /\ last' = NoCall
  /\ UNCHANGED <<watcherVars, guardVars, now, paused, registryVars, planVars, subVars, payments, bal>>

\* IBEP20.balanceOf / allowance / transferFrom as the contract sees them.
balanceOf(b, a) == IF a \in DOMAIN b THEN b[a] ELSE 0
allowance(al, a) == IF a \in DOMAIN al THEN al[a] ELSE 0

\* transferFrom(from, to, amount) succeeds when the token accepts transfers
\* during this transaction (L.live: it is not paused and blocks neither party)
\* and the holder has the balance and has authorized the amount.
transferFromOk(L, from, amount) ==
  /\ L.live
  /\ balanceOf(L.bal, from) >= amount
  /\ allowance(L.allow, from) >= amount

transferFromApply(L, from, to, amount) ==
  LET b1 == [L.bal EXCEPT ![from] = @ - amount]
      b2 == IF to \in DOMAIN b1 THEN [b1 EXCEPT ![to] = @ + amount] ELSE b1
  IN [L EXCEPT !.bal = b2, !.allow = [L.allow EXCEPT ![from] = @ - amount]]

\* The ledger as a transaction finds it; accepts tells whether the token and
\* the native recipients accept the transfers of this transaction.
\* answers tells whether its balanceOf and allowance return (they throw
\* otherwise).
LedgerOf(accepts, answers) == [bal |-> bal, allow |-> allow, live |-> accepts, answers |-> answers]

Ledger(accepts) == LedgerOf(accepts, TRUE)

\* ------------------------------------------------------------------------
\* Admin functions
\* ------------------------------------------------------------------------
Index(seq, x) == CHOOSE i \in 1..Len(seq) : seq[i] = x /\ \A j \in 1..(i - 1) : seq[j] # x

\* A contract that pops the last token whichever is removed.
SwapPopLast(seq, x) == IF Len(seq) = 0 THEN seq ELSE SubSeq(seq, 1, Len(seq) - 1)

\* Swap-with-last-and-pop removal of the first occurrence.
SwapPop(seq, x) ==
  IF \E i \in 1..Len(seq) : seq[i] = x
  THEN LET i == Index(seq, x)
           sw == [seq EXCEPT ![i] = seq[Len(seq)]]
       IN SubSeq(sw, 1, Len(seq) - 1)
  ELSE seq

addSupportedToken(caller, token) ==
  /\ UNCHANGED <<watcherVars, guardVars, now, paused, planVars, subVars, payments, ledgerVars>>
  /\ IF caller # Owner
     THEN last' = Reverted("addSupportedToken", <<caller, token>>, "Ownable: caller is not the owner")
          /\ UNCHANGED registryVars
     ELSE IF tokenSupported[token]
     THEN last' = Reverted("addSupportedToken", <<caller, token>>, "Token already supported")
          /\ UNCHANGED registryVars
     ELSE /\ tokenSupported' = [tokenSupported EXCEPT ![token] = TRUE]
          /\ supportedTokens' = Append(supportedTokens, token)
          /\ last' = Returned("addSupportedToken", <<caller, token>>, TRUE, <<[name |-> "TokenAdded", token |-> token]>>, <<>>)

removeSupportedToken(caller, token) ==
  /\ UNCHANGED <<watcherVars, guardVars, now, paused, planVars, subVars, payments, ledgerVars>>
  /\ IF caller # Owner
     THEN last' = Reverted("removeSupportedToken", <<caller, token>>, "Ownable: caller is not the owner")
          /\ UNCHANGED registryVars
     ELSE IF token = NoAddr
     THEN last' = Reverted("removeSupportedToken", <<caller, token>>, "Cannot remove native token")
          /\ UNCHANGED registryVars
     ELSE IF ~tokenSupported[token]
     THEN last' = Reverted("removeSupportedToken", <<caller, token>>, "Token not supported")
          /\ UNCHANGED registryVars
     ELSE /\ tokenSupported' = [tokenSupported EXCEPT ![token] = FALSE]
          /\ supportedTokens' = SwapPop(supportedTokens, token)
          /\ last' = Returned("removeSupportedToken", <<caller, token>>, TRUE, <<[name |-> "TokenRemoved", token |-> token]>>, <<>>)

pause(caller) ==
  /\ UNCHANGED <<watcherVars, guardVars, now, registryVars, planVars, subVars, payments, ledgerVars>>
  /\ IF caller # Owner
     THEN last' = Reverted("pause", <<caller>>, "Ownable: caller is not the owner") /\ UNCHANGED paused
     ELSE IF paused
     THEN last' = Reverted("pause", <<caller>>, "Pausable: paused") /\ UNCHANGED paused
     ELSE paused' = TRUE /\ last' = Returned("pause", <<caller>>, TRUE, <<>>, <<>>)

unpause(caller) ==
  /\ UNCHANGED <<watcherVars, guardVars, now, registryVars, planVars, subVars, payments, ledgerVars>>
  /\ IF caller # Owner
     THEN last' = Reverted("unpause", <<caller>>, "Ownable: caller is not the owner") /\ UNCHANGED paused
     ELSE IF ~paused
     THEN last' = Reverted("unpause", <<caller>>, "Pausable: not paused") /\ UNCHANGED paused
     ELSE paused' = FALSE /\ last' = Returned("unpause", <<caller>>, TRUE, <<>>, <<>>)

\* ------------------------------------------------------------------------
\* Plan management
\* ------------------------------------------------------------------------
\* A contract whose createPlan does not look for an existing plan.
createPlanErrorOverwrites(planId, amount, token, interval, merchantAddress) ==
  IF paused THEN "Pausable: paused"
  ELSE IF ~(amount > 0) THEN "Amount must be positive"
  ELSE IF ~(interval >= OneDay) THEN "Interval too short"
  ELSE IF merchantAddress = NoAddr THEN "Invalid merchant"
  ELSE IF ~tokenSupported[token] THEN "Token not supported"
  ELSE ""

createPlanError(planId, amount, token, interval, merchantAddress) ==
  IF paused THEN "Pausable: paused"
  ELSE IF plans[planId].merchant # NoAddr THEN "Plan already exists"
  ELSE IF ~(amount > 0) THEN "Amount must be positive"
  ELSE IF ~(interval >= OneDay) THEN "Interval too short"
  ELSE IF merchantAddress = NoAddr THEN "Invalid merchant"
  ELSE IF ~tokenSupported[token] THEN "Token not supported"
  ELSE ""

createPlan(planId, amount, token, interval, merchantAddress) ==
  LET arg == <<planId, amount, token, interval, merchantAddress>>
      err == createPlanError(planId, amount, token, interval, merchantAddress)
  IN /\ UNCHANGED <<watcherVars, guardVars, now, paused, registryVars, subVars, payments, ledgerVars>>
     /\ IF err # ""
        THEN last' = Reverted("createPlan", arg, err) /\ UNCHANGED planVars
        ELSE /\ plans' = [plans EXCEPT ![planId] =
                    [id |-> planId, amount |-> amount, token |-> token, interval |-> interval,
                     merchant |-> merchantAddress, active |-> TRUE, subscriberCount |-> 0,
                     createdAt |-> now]]
             /\ planIds' = Append(planIds, planId)
             /\ last' = Returned("createPlan", arg, TRUE, <<[name |-> "PlanCreated", id |-> planId]>>, <<>>)

\* A contract whose updatePlan also raises the amount.
updatedPlanRepriced(plan, active) == [plan EXCEPT !.active = active, !.amount = @ + 1]

\* plan.active = active.
updatedPlan(plan, active) == [plan EXCEPT !.active = active]

updatePlan(caller, planId, active) ==
  LET arg == <<caller, planId, active>>
      plan == plans[planId]
  IN /\ UNCHANGED <<watcherVars, guardVars, now, paused, registryVars, planIds, subVars, payments, ledgerVars>>
     /\ IF plan.merchant = NoAddr
        THEN last' = Reverted("updatePlan", arg, "Plan not found") /\ UNCHANGED plans
        ELSE IF ~(caller = plan.merchant \/ caller = Owner)
        THEN last' = Reverted("updatePlan", arg, "Not authorized") /\ UNCHANGED plans
        ELSE /\ plans' = [plans EXCEPT ![planId] = updatedPlan(@, active)]
             /\ last' = Returned("updatePlan", arg, TRUE, <<[name |-> "PlanUpdated", id |-> planId, active |-> active]>>, <<>>)

\* ------------------------------------------------------------------------
\* Subscription management
\* ------------------------------------------------------------------------
Transfer(from, to, token, amount) == [from |-> from, to |-> to, token |-> token, amount |-> amount]

\* _executePayment: the caller-funded first charge.  value is msg.value.
\* Yields the error ("" when it succeeds), the ledger afterwards and the
\* transfers made.
\* A contract that goes on when the first payment cannot be made.
_executePaymentUnchecked(plan, payer, value, L) ==
  [err |-> "",
   L |-> IF plan.token = NoAddr THEN L ELSE transferFromApply(L, payer, plan.merchant, plan.amount),
   moved |-> <<Transfer(IF plan.token = NoAddr THEN "this" ELSE payer, plan.merchant,
                        plan.token, plan.amount)>>]

\* A contract that takes no first payment.
_executePaymentFree(plan, payer, value, L) == [err |-> "", L |-> L, moved |-> <<>>]

_executePayment(plan, payer, value, L) ==
  IF plan.token = NoAddr
  THEN IF ~(value >= plan.amount) THEN [err |-> "Insufficient payment", L |-> L, moved |-> <<>>]
       ELSE IF ~L.live THEN [err |-> "Transfer failed", L |-> L, moved |-> <<>>]
       ELSE [err |-> "", L |-> L,
             moved |-> <<Transfer("this", plan.merchant, NoAddr, plan.amount)>> \o
                       (IF value > plan.amount
                        THEN <<Transfer("this", payer, NoAddr, value - plan.amount)>> ELSE <<>>)]
  ELSE IF ~transferFromOk(L, payer, plan.amount)
       THEN [err |-> "SafeERC20: transferFrom failed", L |-> L, moved |-> <<>>]
       ELSE [err |-> "", L |-> transferFromApply(L, payer, plan.merchant, plan.amount),
             moved |-> <<Transfer(payer, plan.merchant, plan.token, plan.amount)>>]

PaymentRecord(amount, timestamp, periodStart, periodEnd) ==
  [amount |-> amount, timestamp |-> timestamp, periodStart |-> periodStart, periodEnd |-> periodEnd]

\* A contract that counts a first payment for a trial as well.
initialPaymentCountOne(trialDays) == 1

\* The payment count a new subscription starts with.
initialPaymentCount(trialDays) == IF trialDays > 0 THEN 0 ELSE 1

\* A contract that does not count the new subscriber.
subscriberCountSame(count) == count

\* plan.subscriberCount++.
subscriberCountNext(count) == count + 1

\* _subscribe, reached from subscribe (trialDays = 0, msg.value = value) and
\* from subscribeWithTrial (msg.value = 0).
_subscribe(op, caller, planId, trialDays, value, accepts) ==
  LET arg == <<caller, planId, trialDays, value>>
      plan == plans[planId]
      subscriptionId == subscriptionNonce + 1
      startTime == now
      periodStart == startTime
      periodEnd == IF trialDays > 0 THEN startTime + trialDays * OneDay ELSE startTime + plan.interval
      pay == IF trialDays > 0 THEN [err |-> "", L |-> Ledger(accepts), moved |-> <<>>]
             ELSE _executePayment(plan, caller, value, Ledger(accepts))
      err == IF paused THEN "Pausable: paused"
             ELSE IF nonReentrantError(_status) # "" THEN nonReentrantError(_status)
             ELSE IF plan.merchant = NoAddr THEN "Plan not found"
             ELSE IF ~plan.active THEN "Plan is inactive"
             ELSE pay.err
      record == IF trialDays = 0
                THEN <<PaymentRecord(plan.amount, now, periodStart, periodEnd)>> ELSE <<>>
      events == (IF trialDays = 0
                 THEN <<[name |-> "PaymentExecuted", id |-> subscriptionId, amount |-> plan.amount,
                         periodStart |-> periodStart, periodEnd |-> periodEnd]>>
                 ELSE <<>>) \o <<[name |-> "SubscriptionCreated", id |-> subscriptionId]>>
  IN /\ nonReentrantError(_status) = "" => subscriptionId \in DOMAIN subscriptions
     /\ UNCHANGED <<watcherVars, inFlight, now, paused, registryVars, planIds, payments, cancelRequested>>
     /\ _status' = guardAfter(err # "")
     /\ IF err # ""
        THEN /\ last' = Reverted(op, arg, err)
             /\ UNCHANGED <<plans, subscriptions, subscriptionIds, userSubscriptions,
                            planSubscriptions, subscriptionPayments, subscriptionNonce, bal, allow>>
        ELSE /\ subscriptionNonce' = subscriptionNonce + 1
             /\ subscriptions' = [subscriptions EXCEPT ![subscriptionId] =
                    [id |-> subscriptionId, planId |-> planId, subscriber |-> caller,
                     status |-> "Active", startTime |-> startTime,
                     currentPeriodStart |-> periodStart, currentPeriodEnd |-> periodEnd,
                     cancelAtPeriodEnd |-> FALSE, pausedAt |-> 0,
                     paymentCount |-> initialPaymentCount(trialDays)]]
             /\ subscriptionIds' = Append(subscriptionIds, subscriptionId)
             /\ userSubscriptions' = [userSubscriptions EXCEPT ![caller] = Append(@, subscriptionId)]
             /\ planSubscriptions' = [planSubscriptions EXCEPT ![planId] = Append(@, subscriptionId)]
             /\ plans' = [plans EXCEPT ![planId].subscriberCount = subscriberCountNext(@)]
             /\ subscriptionPayments' = [subscriptionPayments EXCEPT ![subscriptionId] = @ \o record]
             /\ bal' = pay.L.bal
             /\ allow' = pay.L.allow
             /\ last' = Returned(op, arg, subscriptionId, events, pay.moved)

subscribe(caller, planId, value, accepts) == _subscribe("subscribe", caller, planId, 0, value, accepts)

subscribeWithTrial(caller, planId, trialDays) ==
  _subscribe("subscribeWithTrial", caller, planId, trialDays, 0, TRUE)

\* requireSubscriptionExists and onlySubscriberOrMerchant.
subscriptionExists(subs, id) == subs[id].subscriber # NoAddr

\* A contract that lets any caller cancel and pause.
_onlySubscriberOrMerchantOff(caller, id) == TRUE

_onlySubscriberOrMerchant(caller, id) ==
  caller = subscriptions[id].subscriber \/ caller = plans[subscriptions[id].planId].merchant

StatusChanged(id, old, new) == [name |-> "SubscriptionStatusChanged", id |-> id, old |-> old, new |-> new]

PaymentFailed(id, reason) == [name |-> "PaymentFailed", id |-> id, reason |-> reason]

\* A contract that accepts cancelSubscription in every status.
cancelAlwaysAllowed(status) == TRUE

\* The statuses cancelSubscription accepts.
cancelAllowed(status) == status = "Active" \/ status = "Paused"

cancelSubscription(caller, id, immediately) ==
  LET arg == <<caller, id, immediately>>
      sub == subscriptions[id]
      err == IF ~subscriptionExists(subscriptions, id) THEN "Subscription not found"
             ELSE IF ~_onlySubscriberOrMerchant(caller, id) THEN "Not authorized"
             ELSE IF ~cancelAllowed(sub.status) THEN "Subscription not active"
             ELSE ""
      canceled == [name |-> "SubscriptionCanceled", id |-> id, immediately |-> immediately]
  IN /\ UNCHANGED <<watcherVars, guardVars, now, paused, registryVars, planVars, payments, ledgerVars, subscriptionIds,
                    userSubscriptions, planSubscriptions, subscriptionPayments, subscriptionNonce>>
     /\ IF err # ""
        THEN last' = Reverted("cancelSubscription", arg, err)
             /\ UNCHANGED <<subscriptions, cancelRequested>>
        ELSE IF immediately
        THEN /\ subscriptions' = [subscriptions EXCEPT ![id].status = "Canceled",
                                                        ![id].currentPeriodEnd = now]
             /\ UNCHANGED cancelRequested
             /\ last' = Returned("cancelSubscription", arg, TRUE,
                                 <<StatusChanged(id, sub.status, "Canceled"), canceled>>, <<>>)
        ELSE /\ subscriptions' = [subscriptions EXCEPT ![id].cancelAtPeriodEnd = TRUE]
             /\ cancelRequested' = cancelRequested \cup {id}
             /\ last' = Returned("cancelSubscription", arg, TRUE, <<canceled>>, <<>>)

pauseSubscription(caller, id) ==
  LET arg == <<caller, id>>
      sub == subscriptions[id]
      err == IF ~subscriptionExists(subscriptions, id) THEN "Subscription not found"
             ELSE IF ~_onlySubscriberOrMerchant(caller, id) THEN "Not authorized"
             ELSE IF sub.status # "Active" THEN "Subscription not active"
             ELSE ""
  IN /\ UNCHANGED <<watcherVars, guardVars, now, paused, registryVars, planVars, payments, ledgerVars, subscriptionIds,
                    userSubscriptions, planSubscriptions, subscriptionPayments, subscriptionNonce,
                    cancelRequested>>
     /\ IF err # ""
        THEN last' = Reverted("pauseSubscription", arg, err) /\ UNCHANGED subscriptions
        ELSE /\ subscriptions' = [subscriptions EXCEPT ![id].status = "Paused", ![id].pausedAt = now]
             /\ last' = Returned("pauseSubscription", arg, TRUE,
                                 <<StatusChanged(id, sub.status, "Paused")>>, <<>>)

\* A contract that resumes without extending the period.
pausedDurationNone(sub) == 0

\* The time a subscription has been paused.
pausedDurationOf(sub) == now - sub.pausedAt

resumeSubscription(caller, id) ==
  LET arg == <<caller, id>>
      sub == subscriptions[id]
      err == IF ~subscriptionExists(subscriptions, id) THEN "Subscription not found"
             ELSE IF caller # sub.subscriber THEN "Only subscriber can resume"
             ELSE IF sub.status # "Paused" THEN "Subscription not paused"
             ELSE ""
      pausedDuration == pausedDurationOf(sub)
  IN /\ UNCHANGED <<watcherVars, guardVars, now, paused, registryVars, planVars, payments, ledgerVars, subscriptionIds,
                    userSubscriptions, planSubscriptions, subscriptionPayments, subscriptionNonce,
                    cancelRequested>>
     /\ IF err # ""
        THEN last' = Reverted("resumeSubscription", arg, err) /\ UNCHANGED subscriptions
        ELSE /\ subscriptions' = [subscriptions EXCEPT ![id].status = "Active",
                                                        ![id].currentPeriodEnd = @ + pausedDuration,
                                                        ![id].pausedAt = 0,
                                                        ![id].cancelAtPeriodEnd = FALSE]
             /\ last' = Returned("resumeSubscription", arg, TRUE,
                                 <<StatusChanged(id, sub.status, "Active")>>, <<>>)

\* ------------------------------------------------------------------------
\* Payment execution
\* ------------------------------------------------------------------------
\* The storage a charge reads and writes, with the ledger.
WorldOf(accepts, answers) ==
  [subs |-> subscriptions, pays |-> subscriptionPayments, L |-> LedgerOf(accepts, answers)]

World(accepts) == WorldOf(accepts, TRUE)

\* An exception of the ledger that reaches the caller of the contract.
LedgerThrew == "(ledger exception)"

\* A contract whose _canCharge does not stop at Canceled.
statusReasonPausedOnly(status) == IF status = "Paused" THEN "Paused" ELSE ""

\* The status check of _canCharge: the reason a status stops a charge, or "".
statusReason(status) ==
  IF status = "Canceled" THEN "Canceled"
  ELSE IF status = "Paused" THEN "Paused"
  ELSE ""

\* A contract whose _canCharge has no due check.
isDueAlways(t, sub) == TRUE

\* The due check of _canCharge.
isDue(t, sub) == ~(t < sub.currentPeriodEnd)

\* The balance and allowance check of _canCharge for a token plan.
fundsReason(amount, balance, allowed) ==
  IF balance < amount THEN "InsufficientBalance"
  ELSE IF allowed < amount THEN "NotApproved"
  ELSE "Success"

\* _canCharge: <<canChargeNow, reason>> at time t; the reason is LedgerThrew
\* when balanceOf or allowance threw, which ends the transaction.
_canCharge(W, t, subscriptionId) ==
  LET sub == W.subs[subscriptionId]
      plan == plans[sub.planId]
      funds == fundsReason(plan.amount, balanceOf(W.L.bal, sub.subscriber),
                           allowance(W.L.allow, sub.subscriber))
  IN IF ~plan.active THEN <<FALSE, "PlanInactive">>
     ELSE IF statusReason(sub.status) # "" THEN <<FALSE, statusReason(sub.status)>>
     ELSE IF ~isDue(t, sub) THEN <<FALSE, "NotDue">>
     ELSE IF plan.token = NoAddr THEN <<TRUE, "Success">>
     ELSE IF ~W.L.answers THEN <<FALSE, LedgerThrew>>
     ELSE IF funds # "Success" THEN <<FALSE, funds>>
     ELSE <<TRUE, "Success">>

\* A contract whose renewal of a native plan counts as paid.
_executePaymentFromPaid(plan, payer, L) == [ok |-> TRUE, L |-> L]

\* _executePaymentFrom: the renewal pull; [ok, L].
_executePaymentFrom(plan, payer, L) ==
  IF plan.token = NoAddr
  THEN [ok |-> FALSE, L |-> L]
  ELSE IF transferFromOk(L, payer, plan.amount)
       THEN [ok |-> TRUE, L |-> transferFromApply(L, payer, plan.merchant, plan.amount)]
       ELSE [ok |-> FALSE, L |-> L]

\* A contract that starts the renewed period at the time of the charge.
newPeriodStartNow(sub) == now

\* The start of the period a successful renewal pays for.
newPeriodStartOf(sub) == sub.currentPeriodEnd

\* A contract whose _chargeSubscription ignores cancel-at-period-end.
cancelsNever(sub) == FALSE

\* The check of _chargeSubscription for a deferred cancellation.
cancelsAtPeriodEnd(sub) == sub.cancelAtPeriodEnd

\* A contract that also skips a day of the period when a pull fails.
markExpiredAndSkip(sub) == [sub EXCEPT !.status = "Expired", !.currentPeriodEnd = @ + OneDay]

\* What a failed pull does to the subscription.
markExpired(sub) == [sub EXCEPT !.status = "Expired"]

\* A contract whose renewal leaves the period end where the period starts.
newPeriodEndSame(newPeriodStart, plan) == newPeriodStart

\* newPeriodEnd = newPeriodStart + plan.interval.
newPeriodEndOf(newPeriodStart, plan) == newPeriodStart + plan.interval

\* _chargeSubscription from the return of the pull on, in the storage W the
\* pull left: [W, ret, events, moved].
_chargeSubscriptionAfterPull(W, t, subscriptionId, pull) ==
  LET sub == W.subs[subscriptionId]
      plan == plans[sub.planId]
      newPeriodStart == newPeriodStartOf(sub)
      newPeriodEnd == newPeriodEndOf(newPeriodStart, plan)
  IN IF ~pull.ok
     THEN [W |-> [W EXCEPT !.subs[subscriptionId] = markExpired(@)],
           ret |-> FALSE,
           events |-> <<StatusChanged(subscriptionId, sub.status, "Expired"),
                        PaymentFailed(subscriptionId, "InsufficientBalance")>>,
           moved |-> <<>>]
     ELSE [W |-> [W EXCEPT !.subs[subscriptionId].currentPeriodStart = newPeriodStart,
                           !.subs[subscriptionId].currentPeriodEnd = newPeriodEnd,
                           !.subs[subscriptionId].paymentCount = @ + 1,
                           !.pays[subscriptionId] =
                              Append(@, PaymentRecord(plan.amount, t, newPeriodStart, newPeriodEnd)),
                           !.L = pull.L],
           ret |-> TRUE,
           events |-> <<[name |-> "PaymentExecuted", id |-> subscriptionId, amount |-> plan.amount,
                         periodStart |-> newPeriodStart, periodEnd |-> newPeriodEnd]>>,
           moved |-> <<Transfer(sub.subscriber, plan.merchant, plan.token, plan.amount)>>]

\* A contract that takes the payment before it looks at cancel-at-period-end.
_chargeSubscriptionPullsFirst(W, t, subscriptionId) ==
  LET sub == W.subs[subscriptionId]
      plan == plans[sub.planId]
      out == _chargeSubscriptionAfterPull(W, t, subscriptionId,
                                          _executePaymentFrom(plan, sub.subscriber, W.L))
  IN IF cancelsAtPeriodEnd(sub) /\ out.ret
     THEN [out EXCEPT !.W.subs[subscriptionId].status = "Canceled", !.ret = FALSE]
     ELSE out

\* _chargeSubscription at time t: [W, ret, events, moved].
_chargeSubscription(W, t, subscriptionId) ==
  LET sub == W.subs[subscriptionId]
      plan == plans[sub.planId]
  IN IF cancelsAtPeriodEnd(sub)
     THEN [W |-> [W EXCEPT !.subs[subscriptionId].status = "Canceled"],
           ret |-> FALSE,
           events |-> <<StatusChanged(subscriptionId, sub.status, "Canceled")>>,
           moved |-> <<>>]
     ELSE _chargeSubscriptionAfterPull(W, t, subscriptionId,
                                       _executePaymentFrom(plan, sub.subscriber, W.L))

\* A contract whose charge does not look at eligibility.
chargeOutcomeUnchecked(W, t, subscriptionId) == _chargeSubscription(W, t, subscriptionId)

\* The outcome of charge(subscriptionId) on an existing subscription.
chargeOutcome(W, t, subscriptionId) ==
  LET can == _canCharge(W, t, subscriptionId)
  IN IF ~can[1]
     THEN [W |-> W, ret |-> FALSE,
           events |-> <<PaymentFailed(subscriptionId, can[2])>>,
           moved |-> <<>>]
     ELSE _chargeSubscription(W, t, subscriptionId)

charge(caller, subscriptionId, accepts, answers) ==
  LET arg == <<caller, subscriptionId>>
      W == WorldOf(accepts, answers)
      out == chargeOutcome(W, now, subscriptionId)
  IN /\ UNCHANGED <<watcherVars, inFlight, now, paused, registryVars, planVars, payments, subscriptionIds,
                    userSubscriptions, planSubscriptions, subscriptionNonce, cancelRequested>>
     /\ _status' = guardAfter(\/ nonReentrantError(_status) # ""
                              \/ ~subscriptionExists(subscriptions, subscriptionId)
                              \/ _canCharge(W, now, subscriptionId)[2] = LedgerThrew)
     /\ IF nonReentrantError(_status) # ""
        THEN last' = Reverted("charge", arg, nonReentrantError(_status))
             /\ UNCHANGED <<subscriptions, subscriptionPayments, bal, allow>>
        ELSE IF ~subscriptionExists(subscriptions, subscriptionId)
        THEN last' = Reverted("charge", arg, "Subscription not found")
             /\ UNCHANGED <<subscriptions, subscriptionPayments, bal, allow>>
        ELSE IF _canCharge(W, now, subscriptionId)[2] = LedgerThrew
        THEN last' = Reverted("charge", arg, LedgerThrew)
             /\ UNCHANGED <<subscriptions, subscriptionPayments, bal, allow>>
        ELSE /\ subscriptions' = out.W.subs
             /\ subscriptionPayments' = out.W.pays
             /\ bal' = out.W.L.bal
             /\ allow' = out.W.L.allow
             /\ last' = Returned("charge", arg, out.ret, out.events, out.moved)

\* The loop of batchCharge from item i on: [W, results, events, moved, threw];
\* it ends where a ledger query throws.
RECURSIVE batchLoop(_, _, _, _)
batchLoop(acc, t, ids, i) ==
  IF i > Len(ids) THEN acc
  ELSE LET subId == ids[i]
       IN IF ~subscriptionExists(acc.W.subs, subId)
          THEN batchLoop([acc EXCEPT !.results = Append(@, FALSE)], t, ids, i + 1)
          ELSE IF _canCharge(acc.W, t, subId)[2] = LedgerThrew
          THEN [acc EXCEPT !.threw = TRUE]
          ELSE IF _canCharge(acc.W, t, subId)[1]
          THEN LET out == _chargeSubscription(acc.W, t, subId)
               IN batchLoop([W |-> out.W, results |-> Append(acc.results, out.ret),
                             events |-> acc.events \o out.events,
                             moved |-> acc.moved \o out.moved,
                             threw |-> FALSE], t, ids, i + 1)
          ELSE batchLoop([acc EXCEPT !.results = Append(@, FALSE)], t, ids, i + 1)

\* A contract whose batch stops after its first item.
batchOutcomeFirstOnly(W, t, ids) ==
  batchLoop([W |-> W, results |-> <<>>, events |-> <<>>, moved |-> <<>>, threw |-> FALSE], t,
            IF Len(ids) = 0 THEN ids ELSE <<ids[1]>>, 1)

batchOutcome(W, t, ids) ==
  batchLoop([W |-> W, results |-> <<>>, events |-> <<>>, moved |-> <<>>, threw |-> FALSE], t, ids, 1)

batchCharge(caller, ids, accepts, answers) ==
  LET arg == <<caller, ids>>
      out == batchOutcome(WorldOf(accepts, answers), now, ids)
  IN /\ UNCHANGED <<watcherVars, inFlight, now, paused, registryVars, planVars, payments, subscriptionIds,
                    userSubscriptions, planSubscriptions, subscriptionNonce, cancelRequested>>
     /\ _status' = guardAfter(\/ nonReentrantError(_status) # ""
                              \/ ~(Len(ids) <= MAX_BATCH_SIZE)
                              \/ out.threw)
     /\ IF nonReentrantError(_status) # ""
        THEN last' = Reverted("batchCharge", arg, nonReentrantError(_status))
             /\ UNCHANGED <<subscriptions, subscriptionPayments, bal, allow>>
        ELSE IF ~(Len(ids) <= MAX_BATCH_SIZE)
        THEN last' = Reverted("batchCharge", arg, "Batch too large")
             /\ UNCHANGED <<subscriptions, subscriptionPayments, bal, allow>>
        ELSE IF out.threw
        THEN last' = Reverted("batchCharge", arg, LedgerThrew)
             /\ UNCHANGED <<subscriptions, subscriptionPayments, bal, allow>>
        ELSE /\ subscriptions' = out.W.subs
             /\ subscriptionPayments' = out.W.pays
             /\ bal' = out.W.L.bal
             /\ allow' = out.W.L.allow
             /\ last' = Returned("batchCharge", arg, out.results, out.events, out.moved)

\* A charge or a batchCharge whose token calls back
\* ------------------------------------------------
\* transferFrom is code of the token: before it moves the amount it may call
\* the contract again.  Such a call is cut in two, the part up to the pull
\* and the part from the return of the pull on; the calls the token makes in
\* between find _status and the storage as the first part left them.

\* Item subId of a charge or of a batch gets as far as transferFrom.
reachesPull(W, t, subId) ==
  /\ subscriptionExists(W.subs, subId)
  /\ _canCharge(W, t, subId)[1]
  /\ ~cancelsAtPeriodEnd(W.subs[subId])
  /\ plans[W.subs[subId].planId].token # NoAddr

\* The loop of batchCharge from item i up to the first pull: [acc, i], with
\* i the item whose pull is reached, or Len(ids) + 1.
RECURSIVE runToPull(_, _, _, _)
runToPull(acc, t, ids, i) ==
  IF i > Len(ids) \/ reachesPull(acc.W, t, ids[i])
  THEN [acc |-> acc, i |-> i]
  ELSE runToPull(batchLoop(acc, t, <<ids[i]>>, 1), t, ids, i + 1)

\* charge(subscriptionId) up to its pull.
chargeToPull(caller, subscriptionId) ==
  /\ nonReentrantError(_status) = ""
  /\ reachesPull(World(TRUE), now, subscriptionId)
  /\ _status' = _ENTERED
  /\ inFlight' = [NoFrame EXCEPT !.op = "charge", !.arg = <<caller, subscriptionId>>,
                                 !.ids = <<subscriptionId>>, !.i = 1]
  /\ last' = NoCall
  /\ UNCHANGED <<watcherVars, now, paused, registryVars, planVars, subVars, payments, ledgerVars>>

\* batchCharge(ids) up to the first pull it makes.
batchChargeToPull(caller, ids) ==
  LET first == runToPull([W |-> World(TRUE), results |-> <<>>, events |-> <<>>, moved |-> <<>>,
                          threw |-> FALSE], now, ids, 1)
  IN /\ nonReentrantError(_status) = ""
     /\ Len(ids) <= MAX_BATCH_SIZE
     /\ first.i <= Len(ids)
     /\ _status' = _ENTERED
     /\ subscriptions' = first.acc.W.subs
     /\ inFlight' = [op |-> "batchCharge", arg |-> <<caller, ids>>, ids |-> ids, i |-> first.i,
                     results |-> first.acc.results, events |-> first.acc.events,
                     moved |-> first.acc.moved]
     /\ last' = NoCall
     /\ UNCHANGED <<watcherVars, now, paused, registryVars, planVars, payments, ledgerVars, subscriptionIds,
                    userSubscriptions, planSubscriptions, subscriptionPayments, subscriptionNonce,
                    cancelRequested>>

\* The pull of the item in flight returns: the item is finished in the
\* storage as it is now, and the call goes on to its next pull or to its end.
pullReturns(accepts) ==
  LET subId == inFlight.ids[inFlight.i]
      W == World(accepts)
      sub == W.subs[subId]
      out == _chargeSubscriptionAfterPull(W, now, subId,
                 _executePaymentFrom(plans[sub.planId], sub.subscriber, W.L))
      rest == runToPull([W |-> out.W, results |-> Append(inFlight.results, out.ret),
                         events |-> inFlight.events \o out.events,
                         moved |-> inFlight.moved \o out.moved, threw |-> FALSE],
                        now, inFlight.ids, inFlight.i + 1)
  IN /\ inFlight # NoFrame
     /\ subscriptions' = rest.acc.W.subs
     /\ subscriptionPayments' = rest.acc.W.pays
     /\ bal' = rest.acc.W.L.bal
     /\ allow' = rest.acc.W.L.allow
     /\ IF rest.i > Len(inFlight.ids)
        THEN /\ _status' = _nonReentrantAfter(_status)
             /\ inFlight' = NoFrame
             /\ last' = Returned(inFlight.op, inFlight.arg,
                                 IF inFlight.op = "charge" THEN rest.acc.results[1]
                                 ELSE rest.acc.results,
                                 rest.acc.events, rest.acc.moved)
        ELSE /\ inFlight' = [inFlight EXCEPT !.i = rest.i, !.results = rest.acc.results,
                                             !.events = rest.acc.events, !.moved = rest.acc.moved]
             /\ last' = NoCall
             /\ UNCHANGED _status
     /\ UNCHANGED <<watcherVars, now, paused, registryVars, planVars, payments, subscriptionIds,
                    userSubscriptions, planSubscriptions, subscriptionNonce, cancelRequested>>

\* canCharge: the view function; it writes nothing.
canCharge(subscriptionId) ==
  /\ last' = Returned("canCharge", <<subscriptionId>>, _canCharge(World(TRUE), now, subscriptionId), <<>>, <<>>)
  /\ UNCHANGED <<watcherVars, guardVars, now, paused, registryVars, planVars, subVars, payments, ledgerVars>>

\* ------------------------------------------------------------------------
\* One-time payment
\* ------------------------------------------------------------------------
\* A contract whose pay does not look for an earlier payment.
orderAlwaysUnpaid(p) == TRUE

\* The check of pay that the order identifier is unused.
orderUnpaid(p) == p.payer = NoAddr

pay(caller, orderId, amount, token, merchant, value, accepts) ==
  LET arg == <<caller, orderId, amount, token, merchant, value>>
      err == IF paused THEN "Pausable: paused"
             ELSE IF nonReentrantError(_status) # "" THEN nonReentrantError(_status)
             ELSE IF ~orderUnpaid(payments[orderId]) THEN "Order already paid"
             ELSE IF ~(amount > 0) THEN "Amount must be positive"
             ELSE IF merchant = NoAddr THEN "Invalid merchant"
             ELSE IF ~tokenSupported[token] THEN "Token not supported"
             ELSE IF token = NoAddr
             THEN (IF ~(value >= amount) THEN "Insufficient payment"
                   ELSE IF ~accepts THEN "Transfer failed" ELSE "")
             ELSE IF ~transferFromOk(Ledger(accepts), caller, amount) THEN "SafeERC20: transferFrom failed"
             ELSE ""
      L2 == IF token = NoAddr THEN Ledger(accepts)
            ELSE transferFromApply(Ledger(accepts), caller, merchant, amount)
      moved == IF token = NoAddr
               THEN <<Transfer("this", merchant, NoAddr, amount)>> \o
                    (IF value > amount THEN <<Transfer("this", caller, NoAddr, value - amount)>> ELSE <<>>)
               ELSE <<Transfer(caller, merchant, token, amount)>>
  IN /\ UNCHANGED <<watcherVars, inFlight, now, paused, registryVars, planVars, subVars>>
     /\ _status' = guardAfter(err # "")
     /\ IF err # ""
        THEN last' = Reverted("pay", arg, err) /\ UNCHANGED <<payments, bal, allow>>
        ELSE /\ payments' = [payments EXCEPT ![orderId] =
                    [orderId |-> orderId, payer |-> caller, merchant |-> merchant, amount |-> amount,
                     token |-> token, timestamp |-> now, paid |-> TRUE]]
             /\ bal' = L2.bal
             /\ allow' = L2.allow
             /\ last' = Returned("pay", arg, TRUE,
                                 <<[name |-> "PaymentReceived", id |-> orderId]>>, moved)

\* getPayment: the view function.
getPaymentOf(store, orderId) == store[orderId]

getPayment(orderId) ==
  /\ last' = Returned("getPayment", <<orderId>>, getPaymentOf(payments, orderId), <<>>, <<>>)
  /\ UNCHANGED <<watcherVars, guardVars, now, paused, registryVars, planVars, subVars, payments, ledgerVars>>

\* ------------------------------------------------------------------------
\* Refund
\* ------------------------------------------------------------------------
\* The amounts of the payment records of a subscription, added up.
RECURSIVE totalOf(_)
totalOf(records) ==
  IF records = <<>> THEN 0 ELSE records[1].amount + totalOf(Tail(records))

\* A contract that refunds no more than the subscription was charged.
refundErrorCapped(caller, subscriptionId, amount, value, accepts) ==
  LET sub == subscriptions[subscriptionId]
      plan == plans[sub.planId]
  IN IF nonReentrantError(_status) # "" THEN nonReentrantError(_status)
     ELSE IF ~subscriptionExists(subscriptions, subscriptionId) THEN "Subscription not found"
     ELSE IF caller # plan.merchant THEN "Only merchant can refund"
     ELSE IF ~(amount > 0) THEN "Amount must be positive"
     ELSE IF amount > totalOf(subscriptionPayments[subscriptionId]) THEN "Refund exceeds charges"
     ELSE IF plan.token = NoAddr
     THEN (IF ~(value >= amount) THEN "Insufficient refund amount"
           ELSE IF ~accepts THEN "Refund failed" ELSE "")
     ELSE IF ~transferFromOk(Ledger(accepts), caller, amount) THEN "SafeERC20: transferFrom failed"
     ELSE ""

\* The error refund stops with, "" when it goes through.
refundError(caller, subscriptionId, amount, value, accepts) ==
  LET sub == subscriptions[subscriptionId]
      plan == plans[sub.planId]
  IN IF nonReentrantError(_status) # "" THEN nonReentrantError(_status)
     ELSE IF ~subscriptionExists(subscriptions, subscriptionId) THEN "Subscription not found"
     ELSE IF caller # plan.merchant THEN "Only merchant can refund"
     ELSE IF ~(amount > 0) THEN "Amount must be positive"
     ELSE IF plan.token = NoAddr
     THEN (IF ~(value >= amount) THEN "Insufficient refund amount"
           ELSE IF ~accepts THEN "Refund failed" ELSE "")
     ELSE IF ~transferFromOk(Ledger(accepts), caller, amount) THEN "SafeERC20: transferFrom failed"
     ELSE ""

refund(caller, subscriptionId, amount, to, value, accepts) ==
  LET arg == <<caller, subscriptionId, amount, to, value>>
      sub == subscriptions[subscriptionId]
      plan == plans[sub.planId]
      recipient == IF to = NoAddr THEN sub.subscriber ELSE to
      err == refundError(caller, subscriptionId, amount, value, accepts)
      L2 == IF plan.token = NoAddr THEN Ledger(accepts)
            ELSE transferFromApply(Ledger(accepts), caller, recipient, amount)
      moved == IF plan.token = NoAddr
               THEN <<Transfer("this", recipient, NoAddr, amount)>> \o
                    (IF value > amount THEN <<Transfer("this", caller, NoAddr, value - amount)>> ELSE <<>>)
               ELSE <<Transfer(caller, recipient, plan.token, amount)>>
  IN /\ UNCHANGED <<watcherVars, inFlight, now, paused, registryVars, planVars, subVars, payments>>
     /\ _status' = guardAfter(err # "")
     /\ IF err # ""
        THEN last' = Reverted("refund", arg, err) /\ UNCHANGED <<bal, allow>>
        ELSE /\ bal' = L2.bal
             /\ allow' = L2.allow
             /\ last' = Returned("refund", arg, TRUE,
                                 <<[name |-> "Refunded", id |-> subscriptionId, to |-> recipient,
                                    amount |-> amount]>>, moved)

\* ------------------------------------------------------------------------
\* Paged queries
\* ------------------------------------------------------------------------
\* Checked arithmetic: the error of offset + limit, or "".
addError(a, b) == IF a + b > MaxUint THEN "Panic(0x11)" ELSE ""

\* The second loop of getPendingCharges: the identifiers found from item i
\* on, past the first `offset` chargeable ones, until the page is full.
RECURSIVE pendingLoop(_, _, _, _, _, _, _)
pendingLoop(ids, can, offset, resultSize, i, found, result) ==
  IF ~(i <= Len(ids) /\ Len(result) < resultSize) THEN result
  ELSE IF can[i]
  THEN pendingLoop(ids, can, offset, resultSize, i + 1, found + 1,
                   IF found >= offset THEN Append(result, ids[i]) ELSE result)
  ELSE pendingLoop(ids, can, offset, resultSize, i + 1, found, result)

\* getPendingCharges(offset, limit) at time t: [err, result, total].
getPendingChargesOf(W, t, ids, offset, limit) ==
  LET can == [i \in 1..Len(ids) |-> _canCharge(W, t, ids[i])[1]]
      total == Cardinality({i \in 1..Len(ids) : can[i]})
      resultSize == IF offset + limit > total THEN total - offset ELSE limit
  IN IF offset >= total \/ limit = 0 THEN [err |-> "", result |-> <<>>, total |-> total]
     ELSE IF addError(offset, limit) # ""
     THEN [err |-> addError(offset, limit), result |-> <<>>, total |-> 0]
     ELSE [err |-> "", result |-> pendingLoop(ids, can, offset, resultSize, 1, 0, <<>>),
           total |-> total]

getPendingCharges(offset, limit) ==
  LET out == getPendingChargesOf(World(TRUE), now, subscriptionIds, offset, limit)
  IN /\ last' = IF out.err # "" THEN Reverted("getPendingCharges", <<offset, limit>>, out.err)
                ELSE Returned("getPendingCharges", <<offset, limit>>, <<out.result, out.total>>,
                              <<>>, <<>>)
     /\ UNCHANGED <<watcherVars, guardVars, now, paused, registryVars, planVars, subVars, payments, ledgerVars>>

\* getSubscriptionsByPlan(planId, offset, limit): [err, result, total].
getSubscriptionsByPlanOf(subs, offset, limit) ==
  LET total == Len(subs)
      end == IF offset + limit > total THEN total ELSE offset + limit
  IN IF offset >= total
     THEN [err |-> "", result |-> <<>>, total |-> total]
     ELSE IF addError(offset, limit) # ""
     THEN [err |-> addError(offset, limit), result |-> <<>>, total |-> 0]
     ELSE [err |-> "", result |-> [i \in 1..(end - offset) |-> subs[offset + i]], total |-> total]

getSubscriptionsByPlan(planId, offset, limit) ==
  LET arg == <<planId, offset, limit>>
      out == getSubscriptionsByPlanOf(planSubscriptions[planId], offset, limit)
  IN /\ last' = IF out.err # "" THEN Reverted("getSubscriptionsByPlan", arg, out.err)
                ELSE Returned("getSubscriptionsByPlan", arg, <<out.result, out.total>>, <<>>, <<>>)
     /\ UNCHANGED <<watcherVars, guardVars, now, paused, registryVars, planVars, subVars, payments, ledgerVars>>

\* getPaymentHistory(subscriptionId, offset, limit): [err, amounts, timestamps, total].
getPaymentHistoryOf(records, offset, limit) ==
  LET total == Len(records)
      end == IF offset + limit > total THEN total ELSE offset + limit
      size == end - offset
  IN IF offset >= total \/ limit = 0
     THEN [err |-> "", amounts |-> <<>>, timestamps |-> <<>>, total |-> total]
     ELSE IF addError(offset, limit) # ""
     THEN [err |-> addError(offset, limit), amounts |-> <<>>, timestamps |-> <<>>, total |-> 0]
     ELSE [err |-> "",
           amounts |-> [i \in 1..size |-> records[offset + i].amount],
           timestamps |-> [i \in 1..size |-> records[offset + i].timestamp],
           total |-> total]

getPaymentHistory(subscriptionId, offset, limit) ==
  LET arg == <<subscriptionId, offset, limit>>
      out == getPaymentHistoryOf(subscriptionPayments[subscriptionId], offset, limit)
  IN /\ last' = IF out.err # "" THEN Reverted("getPaymentHistory", arg, out.err)
                ELSE Returned("getPaymentHistory", arg,
                              <<out.amounts, out.timestamps, out.total>>, <<>>, <<>>)
     /\ UNCHANGED <<watcherVars, guardVars, now, paused, registryVars, planVars, subVars, payments, ledgerVars>>

\* ------------------------------------------------------------------------
\* The billing specification: subscriptions of an existing plan
\* ------------------------------------------------------------------------
Values == 0..(MaxAmount + 1)
TrialDays == 0..MaxTrial
\* Every batch the limit admits, and one that is too large.
BatchInputs ==
  UNION {[1..n -> SubIdSpace] : n \in 0..MAX_BATCH_SIZE} \cup {[i \in 1..(MAX_BATCH_SIZE + 1) |-> 1]}

\* Plan 1 as createPlan(1, amount, token, interval, "M") leaves it at time 0.
PlanOf(amount, token, interval) ==
  [id |-> 1, amount |-> amount, token |-> token, interval |-> interval, merchant |-> "M",
   active |-> TRUE, subscriberCount |-> 0, createdAt |-> 0]

\* The state after construction, addSupportedToken(Tok) and one createPlan
\* of amount MaxAmount for an asset of the given set, the ledger following
\* the given holders.
InitWithPlanAndHolders(assets, holders) ==
  /\ WatcherInit({"auto"}, {""})
  /\ now = 0
  /\ paused = FALSE
  /\ tokenSupported = [t \in Assets |-> t \in Tokens]
  /\ supportedTokens = <<Native, Tok>>
  /\ \E am \in {MaxAmount}, t \in assets, i \in OneDay..MaxInterval :
        plans = [p \in PlanIds |-> IF p = 1 THEN PlanOf(am, t, i) ELSE ZeroPlan]
  /\ planIds = <<1>>
  /\ subscriptions = [s \in SubIdSpace |-> ZeroSub]
  /\ subscriptionIds = <<>>
  /\ userSubscriptions = [a \in Addr |-> <<>>]
  /\ planSubscriptions = [p \in PlanIds |-> <<>>]
  /\ subscriptionPayments = [s \in SubIdSpace |-> <<>>]
  /\ payments = [o \in OrderIds |-> ZeroPayment]
  /\ subscriptionNonce = 0
  /\ cancelRequested = {}
  /\ _status = _NOT_ENTERED
  /\ inFlight = NoFrame
  /\ bal = [a \in holders |-> 0]
  /\ allow = [a \in holders |-> 0]
  /\ last = NoCall

InitWithPlan(assets) == InitWithPlanAndHolders(assets, Subscribers)

\* A call is one transaction and `last` is its receipt; the receipt is taken
\* before the next step.
Idle == last = NoCall /\ inFlight = NoFrame

Settle ==
  /\ last # NoCall
  /\ last' = NoCall
  /\ UNCHANGED <<watcherVars, guardVars, now, paused, registryVars, planVars, subVars, payments, ledgerVars>>

\* The clock and the ledger.
Environment ==
  \/ Idle /\ Tick
  \/ Idle /\ \E a \in Subscribers : Mint(a)
  \/ Idle /\ \E a \in Subscribers, v \in 0..MaxSupply : Approve(a, v)

\* Subscriptions of an active token plan: their whole life.
Next ==
  \/ Settle
  \/ Environment
  \/ Idle /\ \E c \in Subscribers, p \in {1}, v \in Values, ok \in BOOLEAN : subscribe(c, p, v, ok)
  \/ Idle /\ \E c \in Subscribers, p \in {1}, d \in TrialDays : subscribeWithTrial(c, p, d)
  \/ Idle /\ \E c \in Addr, s \in SubIdSpace, b \in BOOLEAN : cancelSubscription(c, s, b)
  \/ Idle /\ \E c \in Addr, s \in SubIdSpace : pauseSubscription(c, s)
  \/ Idle /\ \E c \in Addr, s \in SubIdSpace : resumeSubscription(c, s)
  \/ Idle /\ \E s \in SubIdSpace, ok \in BOOLEAN : charge("O", s, ok, TRUE)
  \/ Idle /\ \E ids \in BatchInputs, ok \in BOOLEAN : batchCharge("O", ids, ok, TRUE)

InitBilling == InitWithPlan({Tok})

Spec == InitBilling /\ [][Next]_vars

\* Ledger faults: renewals of a token plan on a ledger whose balance and
\* authorization queries may throw and whose pull may fail.
NextLedgerFaults ==
  \/ Settle
  \/ Environment
  \/ Idle /\ \E c \in Subscribers, p \in {1}, v \in Values : subscribe(c, p, v, TRUE)
  \/ Idle /\ \E s \in SubIdSpace, ok \in BOOLEAN, answers \in BOOLEAN : charge("O", s, ok, answers)
  \/ Idle /\ \E ids \in BatchInputs, ok \in BOOLEAN, answers \in BOOLEAN :
                 batchCharge("O", ids, ok, answers)

InitLedgerFaults == InitWithPlan({Tok})

SpecLedgerFaults == InitLedgerFaults /\ [][NextLedgerFaults]_vars

\* Reentrancy: charges and batches of a token plan whose token calls the
\* contract back from inside transferFrom, as the subscriber, the merchant or
\* anyone else.
\* The token is inside the pull and the receipt of its latest call is taken.
Nested == inFlight # NoFrame /\ last = NoCall

NextReentrancy ==
  \/ Settle
  \/ Idle /\ Tick
  \/ Idle /\ \E a \in Subscribers : Mint(a)
  \/ Idle /\ \E a \in Subscribers : Approve(a, MaxSupply)
  \/ Idle /\ \E c \in Subscribers, p \in {1} : subscribe(c, p, 0, TRUE)
  \/ Idle /\ \E s \in SubIdSpace : chargeToPull("O", s)
  \/ Idle /\ \E ids \in {<<1>>, <<0, 1>>, <<1, 1>>} : batchChargeToPull("O", ids)
  \/ Nested /\ \E ok \in BOOLEAN : pullReturns(ok)
  \/ Nested /\ \E c \in {"M"}, p \in {1}, b \in BOOLEAN : updatePlan(c, p, b)
  \/ Nested /\ \E c \in Subscribers, s \in {1}, b \in BOOLEAN : cancelSubscription(c, s, b)
  \/ Nested /\ \E c \in Subscribers, s \in {1} : pauseSubscription(c, s)
  \/ Nested /\ \E c \in Subscribers, s \in {1} : resumeSubscription(c, s)
  \/ Nested /\ \E c \in Subscribers, p \in {1} : subscribe(c, p, 0, TRUE)
  \/ Nested /\ \E c \in Subscribers, p \in {1}, d \in TrialDays : subscribeWithTrial(c, p, d)
  \/ Nested /\ \E s \in {1} : charge("O", s, TRUE, TRUE)
  \/ Nested /\ \E ids \in {<<1>>} : batchCharge("O", ids, TRUE, TRUE)
  \/ Nested /\ \E c \in Subscribers, o \in {1} : pay(c, o, MaxAmount, Tok, "M", 0, TRUE)
  \/ Nested /\ \E s \in {1} : refund("M", s, MaxAmount, NoAddr, 0, TRUE)

InitReentrancy == InitWithPlan({Tok})

SpecReentrancy == InitReentrancy /\ [][NextReentrancy]_vars

\* Guard: every guarded operation as a top-level call that succeeds, returns
\* false early or fails, charges whose token calls back included.
NextGuard ==
  \/ Settle
  \/ Idle /\ Tick
  \/ Idle /\ \E a \in Subscribers : Mint(a)
  \/ Idle /\ \E a \in Subscribers : Approve(a, MaxSupply)
  \/ Idle /\ \E c \in Subscribers, ok \in BOOLEAN : subscribe(c, 1, 0, ok)
  \/ Idle /\ \E c \in Subscribers, d \in {MaxTrial} : subscribeWithTrial(c, 1, d)
  \/ Idle /\ \E s \in SubIdSpace, ok \in BOOLEAN : charge("O", s, ok, TRUE)
  \/ Idle /\ \E ids \in {<<1>>, <<1, 1, 1>>}, ok \in BOOLEAN : batchCharge("O", ids, ok, TRUE)
  \/ Idle /\ \E c \in Subscribers, ok \in BOOLEAN : pay(c, 1, MaxAmount, Tok, "M", 0, ok)
  \/ Idle /\ \E s \in SubIdSpace, v \in {0, MaxAmount} : refund("M", s, MaxAmount, NoAddr, v, TRUE)
  \/ Idle /\ \E s \in {1} : chargeToPull("O", s)
  \/ Idle /\ \E ids \in {<<1>>} : batchChargeToPull("O", ids)
  \/ Nested /\ \E ok \in BOOLEAN : pullReturns(ok)
  \/ Nested /\ \E s \in {1} : charge("O", s, TRUE, TRUE)

SpecGuard == InitReentrancy /\ [][NextGuard]_vars

\* Absent subscriptions: plans of the native asset are created under either
\* identifier, the all-zero one included, switched off and on and subscribed
\* to, and canCharge is asked about identifiers in use or not.
NextAbsent ==
  \/ Settle
  \/ Idle /\ Tick
  \/ Idle /\ \E p \in PlanIds : createPlan(p, MaxAmount, Native, OneDay, "M")
  \/ Idle /\ \E p \in PlanIds, b \in BOOLEAN : updatePlan("M", p, b)
  \/ Idle /\ \E c \in Subscribers, p \in PlanIds : subscribeWithTrial(c, p, MaxTrial)
  \/ Idle /\ \E s \in SubIdSpace : canCharge(s)

SpecAbsent == Init /\ [][NextAbsent]_vars

\* Registry: the owner adds and removes tokens, a merchant creates the plan
\* and a funded subscriber subscribes to it, from the state after construction.
NextRegistry ==
  \/ Settle
  \/ Idle /\ \E a \in Subscribers : Mint(a)
  \/ Idle /\ \E a \in Subscribers : Approve(a, MaxSupply)
  \/ Idle /\ \E c \in {Owner, "U"}, t \in Assets : addSupportedToken(c, t)
  \/ Idle /\ \E c \in {Owner, "U"}, t \in Assets : removeSupportedToken(c, t)
  \/ Idle /\ \E t \in Assets : createPlan(1, MaxAmount, t, OneDay, "M")
  \/ Idle /\ \E c \in Subscribers, p \in {1}, v \in {0, MaxAmount} : subscribe(c, p, v, TRUE)
  \/ Idle /\ \E c \in Subscribers, p \in {1}, d \in {MaxTrial} : subscribeWithTrial(c, p, d)

SpecRegistry == Init /\ [][NextRegistry]_vars

\* Native plans: the whole life of a subscription of a plan in the native
\* asset, which the merchant switches off and on.
NextNative ==
  \/ Settle
  \/ Idle /\ Tick
  \/ Idle /\ \E c \in {"M"}, p \in {1}, b \in BOOLEAN : updatePlan(c, p, b)
  \/ Idle /\ \E c \in Subscribers, p \in {1}, v \in {0, MaxAmount} : subscribe(c, p, v, TRUE)
  \/ Idle /\ \E c \in Subscribers, p \in {1}, d \in TrialDays : subscribeWithTrial(c, p, d)
  \/ Idle /\ \E c \in Subscribers, s \in {1}, b \in BOOLEAN : cancelSubscription(c, s, b)
  \/ Idle /\ \E c \in Subscribers, s \in {1} : pauseSubscription(c, s)
  \/ Idle /\ \E c \in Subscribers, s \in {1} : resumeSubscription(c, s)
  \/ Idle /\ \E s \in SubIdSpace, ok \in BOOLEAN : charge("O", s, ok, TRUE)
  \/ Idle /\ \E ids \in {<<1>>, <<0, 1>>, <<1, 1>>}, ok \in BOOLEAN : batchCharge("O", ids, ok, TRUE)

InitNative == InitWithPlan({Native})

SpecNative == InitNative /\ [][NextNative]_vars

\* Paging: two subscriptions of a token plan, made at time 0 by the same
\* subscriber; each has been renewed at OneDay or not, and paused after its
\* latest payment or not.  The clock and the ledger move, and the paged
\* queries are made.
PageIds == {1, 2}

SubscriptionAfter(s, renewals, status) ==
  [id |-> s, planId |-> 1, subscriber |-> "U", status |-> status, startTime |-> 0,
   currentPeriodStart |-> renewals * OneDay, currentPeriodEnd |-> (renewals + 1) * OneDay,
   cancelAtPeriodEnd |-> FALSE, pausedAt |-> IF status = "Paused" THEN renewals * OneDay ELSE 0,
   paymentCount |-> renewals + 1]

HistoryAfter(renewals) ==
  [k \in 1..(renewals + 1) |->
     PaymentRecord(MaxAmount, (k - 1) * OneDay, (k - 1) * OneDay, k * OneDay)]

InitPaging ==
  /\ WatcherInit({"auto"}, {""})
  /\ now = OneDay
  /\ paused = FALSE
  /\ tokenSupported = [t \in Assets |-> t \in Tokens]
  /\ supportedTokens = <<Native, Tok>>
  /\ plans = [p \in PlanIds |->
               IF p = 1 THEN [PlanOf(MaxAmount, Tok, OneDay) EXCEPT !.subscriberCount = 2]
               ELSE ZeroPlan]
  /\ planIds = <<1>>
  /\ \E renewals \in [PageIds -> 0..1], status \in [PageIds -> {"Active", "Paused"}] :
        /\ subscriptions = [s \in {0} \cup PageIds |->
                              IF s = 0 THEN ZeroSub
                              ELSE SubscriptionAfter(s, renewals[s], status[s])]
        /\ subscriptionPayments = [s \in {0} \cup PageIds |->
                                     IF s = 0 THEN <<>> ELSE HistoryAfter(renewals[s])]
  /\ subscriptionIds = <<1, 2>>
  /\ userSubscriptions = [a \in Addr |-> IF a = "U" THEN <<1, 2>> ELSE <<>>]
  /\ planSubscriptions = [p \in PlanIds |-> IF p = 1 THEN <<1, 2>> ELSE <<>>]
  /\ payments = [o \in OrderIds |-> ZeroPayment]
  /\ subscriptionNonce = 2
  /\ cancelRequested = {}
  /\ _status = _NOT_ENTERED
  /\ inFlight = NoFrame
  /\ bal = [a \in Subscribers |-> 0]
  /\ allow = [a \in Subscribers |-> 0]
  /\ last = NoCall

NextPaging ==
  \/ Settle
  \/ Environment
  \/ Idle /\ \E offset \in 0..MaxUint, limit \in 0..MaxUint : getPendingCharges(offset, limit)
  \/ Idle /\ \E s \in {0} \cup PageIds, offset \in 0..MaxUint, limit \in 0..MaxUint :
                 getPaymentHistory(s, offset, limit)
  \/ Idle /\ \E p \in PlanIds, offset \in 0..MaxUint, limit \in 0..MaxUint :
                 getSubscriptionsByPlan(p, offset, limit)

SpecPaging == InitPaging /\ [][NextPaging]_vars

\* Plans: plans are created, with good and bad arguments, while the owner
\* pauses and unpauses the contract and adds and removes the token.
PlanInputs == [planId : PlanIds, amount : 0..MaxAmount, token : Tokens,
               interval : 0..MaxInterval, merchant : {NoAddr, "M", "U"}]

NextPlans ==
  \/ Settle
  \/ Idle /\ Tick
  \/ Idle /\ \E c \in {Owner} : pause(c)
  \/ Idle /\ \E c \in {Owner} : unpause(c)
  \/ Idle /\ \E c \in {Owner}, t \in {Tok} : addSupportedToken(c, t)
  \/ Idle /\ \E c \in {Owner}, t \in {Tok} : removeSupportedToken(c, t)
  \/ Idle /\ \E in \in PlanInputs :
                 createPlan(in.planId, in.amount, in.token, in.interval, in.merchant)

SpecPlans == Init /\ [][NextPlans]_vars

\* Roles: every role-restricted call, made by the owner, the merchant and
\* the subscriber alike, on plans and subscriptions that exist or not.
NextRoles ==
  \/ Settle
  \/ Idle /\ \E a \in {"M"} : Mint(a)
  \/ Idle /\ \E a \in {"M"} : Approve(a, MaxSupply)
  \/ Idle /\ \E c \in Subscribers, p \in {1} : subscribeWithTrial(c, p, MaxTrial)
  \/ Idle /\ \E c \in Addr, t \in {Tok2} : addSupportedToken(c, t)
  \/ Idle /\ \E c \in Addr, t \in {Tok2} : removeSupportedToken(c, t)
  \/ Idle /\ \E c \in Addr, p \in PlanIds, b \in BOOLEAN : updatePlan(c, p, b)
  \/ Idle /\ \E c \in Addr, s \in SubIdSpace, b \in BOOLEAN : cancelSubscription(c, s, b)
  \/ Idle /\ \E c \in Addr, s \in SubIdSpace : pauseSubscription(c, s)
  \/ Idle /\ \E c \in Addr, s \in SubIdSpace : resumeSubscription(c, s)
  \/ Idle /\ \E c \in Addr, s \in SubIdSpace, v \in {0, MaxAmount} :
                 refund(c, s, MaxAmount, NoAddr, v, TRUE)

InitRoles == InitWithPlanAndHolders(Tokens, {"M"})

SpecRoles == InitRoles /\ [][NextRoles]_vars

\* Refunds: the merchant refunds subscriptions that paid once or never, in
\* amounts up to more than the plan's, to the subscriber or to someone else.
RefundInputs ==
  [amount : 0..(MaxAmount + 1), to : {NoAddr, "O"}, extra : 0..1, accepts : BOOLEAN]

NextRefund ==
  \/ Settle
  \/ Idle /\ \E a \in {"U", "M"} : Mint(a)
  \/ Idle /\ \E a \in {"U", "M"} : Approve(a, MaxSupply)
  \/ Idle /\ \E c \in Subscribers, p \in {1} : subscribe(c, p, MaxAmount, TRUE)
  \/ Idle /\ \E c \in Subscribers, p \in {1} : subscribeWithTrial(c, p, MaxTrial)
  \/ Idle /\ \E s \in SubIdSpace, in \in RefundInputs :
                 refund("M", s, in.amount, in.to, in.amount + in.extra, in.accepts)
  \/ Idle /\ \E s \in SubIdSpace, in \in RefundInputs :
                 refund("M", s, in.amount, in.to, 0, in.accepts)

InitRefund == InitWithPlanAndHolders(Tokens, {"U", "M"})

SpecRefund == InitRefund /\ [][NextRefund]_vars

\* Counts: two plans of the native asset and up to two subscriptions, of two
\* subscribers, that are canceled, paused and left to expire.
CountIds == {1, 2}

InitCounts ==
  /\ WatcherInit({"auto"}, {""})
  /\ now = 0
  /\ paused = FALSE
  /\ tokenSupported = [t \in Assets |-> t = Native]
  /\ supportedTokens = <<Native>>
  /\ plans = [p \in PlanIds |-> IF p = 1 THEN PlanOf(MaxAmount, Native, OneDay) ELSE ZeroPlan]
  /\ planIds = <<1>>
  /\ subscriptions = [s \in {0} \cup CountIds |-> ZeroSub]
  /\ subscriptionIds = <<>>
  /\ userSubscriptions = [a \in Addr |-> <<>>]
  /\ planSubscriptions = [p \in PlanIds |-> <<>>]
  /\ subscriptionPayments = [s \in {0} \cup CountIds |-> <<>>]
  /\ payments = [o \in OrderIds |-> ZeroPayment]
  /\ subscriptionNonce = 0
  /\ cancelRequested = {}
  /\ _status = _NOT_ENTERED
  /\ inFlight = NoFrame
  /\ bal = [a \in Subscribers |-> 0]
  /\ allow = [a \in Subscribers |-> 0]
  /\ last = NoCall

NextCounts ==
  \/ Settle
  \/ Idle /\ Tick
  \/ Idle /\ createPlan(0, MaxAmount, Native, OneDay, "M")
  \/ Idle /\ \E c \in {"U", "O"}, p \in PlanIds : subscribeWithTrial(c, p, MaxTrial)
  \/ Idle /\ \E s \in CountIds : cancelSubscription("M", s, TRUE)
  \/ Idle /\ \E s \in CountIds : pauseSubscription("M", s)
  \/ Idle /\ \E s \in CountIds : charge("O", s, TRUE, TRUE)
  \/ Idle /\ \E p \in PlanIds, limit \in {0, MaxUint} : getSubscriptionsByPlan(p, 0, limit)

SpecCounts == InitCounts /\ [][NextCounts]_vars

\* Schedule: a subscription made by subscribe that is charged on time or
\* late, alone or in a batch; it is never paused and never canceled at once.
NextSchedule ==
  \/ Settle
  \/ Idle /\ Tick
  \/ Idle /\ \E a \in Subscribers : Mint(a)
  \/ Idle /\ \E a \in Subscribers : Approve(a, MaxSupply)
  \/ Idle /\ \E c \in Subscribers, p \in {1} : subscribe(c, p, 0, TRUE)
  \/ Idle /\ \E c \in Subscribers, s \in SubIdSpace : cancelSubscription(c, s, FALSE)
  \/ Idle /\ \E c \in Subscribers, s \in SubIdSpace : resumeSubscription(c, s)
  \/ Idle /\ \E s \in SubIdSpace, ok \in BOOLEAN : charge("O", s, ok, TRUE)
  \/ Idle /\ \E ids \in {<<1>>, <<1, 1>>}, ok \in BOOLEAN : batchCharge("O", ids, ok, TRUE)

SpecSchedule == InitBilling /\ [][NextSchedule]_vars

\* Plan frame: a token plan is created, switched off and on, subscribed to
\* and renewed, while createPlan is called again under the same id.
NextPlanFrame ==
  \/ Settle
  \/ Idle /\ Tick
  \/ Idle /\ \E a \in Subscribers : Mint(a)
  \/ Idle /\ \E a \in Subscribers : Approve(a, MaxSupply)
  \/ Idle /\ addSupportedToken(Owner, Tok)
  \/ Idle /\ \E am \in 1..MaxAmount, t \in Tokens, m \in {"M", "O"} : createPlan(1, am, t, OneDay, m)
  \/ Idle /\ \E c \in {"M", "O"}, b \in BOOLEAN : updatePlan(c, 1, b)
  \/ Idle /\ \E c \in Subscribers, v \in {0, MaxAmount} : subscribe(c, 1, v, TRUE)
  \/ Idle /\ \E s \in SubIdSpace : charge("O", s, TRUE, TRUE)
  \/ Idle /\ \E ids \in {<<1>>} : batchCharge("O", ids, TRUE, TRUE)

SpecPlanFrame == Init /\ [][NextPlanFrame]_vars

\* Eligibility: subscriptions of a token plan or of a native plan that the
\* merchant switches off and on, and the charges and eligibility queries on them.
NextEligibility ==
  \/ Settle
  \/ Environment
  \/ Idle /\ \E c \in {"M"}, p \in {1}, b \in BOOLEAN : updatePlan(c, p, b)
  \/ Idle /\ \E c \in Subscribers, p \in {1}, v \in Values : subscribe(c, p, v, TRUE)
  \/ Idle /\ \E c \in Subscribers, s \in SubIdSpace, b \in BOOLEAN : cancelSubscription(c, s, b)
  \/ Idle /\ \E c \in Subscribers, s \in SubIdSpace : pauseSubscription(c, s)
  \/ Idle /\ \E s \in SubIdSpace, ok \in BOOLEAN : charge("O", s, ok, TRUE)
  \/ Idle /\ \E s \in SubIdSpace : canCharge(s)

InitEligibility == InitWithPlan(Tokens)

SpecEligibility == InitEligibility /\ [][NextEligibility]_vars

\* One-time payments: the token's registration, the pause switch, pay and getPayment.
\* msg.value is nothing, the amount, or more than any amount.
Payers == {"U", "O"}
Merchants == {"M", NoAddr}

NextPay ==
  \/ Settle
  \/ Environment
  \/ Idle /\ \E t \in {Tok} : addSupportedToken(Owner, t)
  \/ Idle /\ pause(Owner)
  \/ Idle /\ unpause(Owner)
  \/ Idle /\ \E c \in Payers, o \in OrderIds, am \in 0..MaxAmount, t \in Tokens, m \in Merchants :
                 \E v \in {0, am, MaxAmount + 1}, ok \in BOOLEAN : pay(c, o, am, t, m, v, ok)
  \/ Idle /\ \E o \in OrderIds : getPayment(o)

SpecPay == Init /\ [][NextPay]_vars

\* Transfers: the calls that move value on behalf of their caller, with a
\* ledger that follows the subscriber and the merchant.
NextTransfers ==
  \/ Settle
  \/ Environment
  \/ Idle /\ \E a \in {"M"} : Mint(a)
  \/ Idle /\ \E a \in {"M"}, v \in {0, MaxAmount} : Approve(a, v)
  \/ Idle /\ \E c \in Subscribers, p \in {1}, v \in Values, ok \in BOOLEAN : subscribe(c, p, v, ok)
  \/ Idle /\ \E c \in Subscribers, o \in {1}, am \in 0..MaxAmount, t \in Tokens :
                 \E v \in {0, am, MaxAmount + 1}, ok \in BOOLEAN : pay(c, o, am, t, "M", v, ok)
  \/ Idle /\ \E s \in SubIdSpace, am \in 0..MaxAmount, to \in {NoAddr} :
                 \E v \in {0, am}, ok \in BOOLEAN : refund("M", s, am, to, v, ok)

InitTransfers == InitWithPlanAndHolders(Tokens, {"U", "M"})

SpecTransfers == InitTransfers /\ [][NextTransfers]_vars

\* ------------------------------------------------------------------------
\* Properties
\* ------------------------------------------------------------------------
history(s) == subscriptionPayments[s]

\* The records of renewal charges: those that pay for a period after the first.
Renewals(s) == {i \in 1..Len(history(s)) : history(s)[i].periodStart # subscriptions[s].startTime}

\* What batchCharge(ids) would do if it were run now.
Rerun(ids, accepts) == batchOutcome(World(accepts), now, ids)

RerunIsVoid(ids) ==
  \A accepts \in BOOLEAN :
    /\ \A k \in 1..Len(ids) : ~Rerun(ids, accepts).results[k]
    /\ Rerun(ids, accepts).W = World(accepts)

\* How many renewals of subscription s the call of receipt r took.
Successes(r, s) ==
  IF r.op = "charge" /\ r.ok
  THEN (IF r.arg[2] = s /\ r.ret THEN 1 ELSE 0)
  ELSE IF r.op = "batchCharge" /\ r.ok
  THEN Cardinality({i \in 1..Len(r.arg[2]) : r.arg[2][i] = s /\ r.ret[i]})
  ELSE 0

\* C1 as stated: no subscription has two renewal charges with the same
\* timestamp, and right after batchCharge(ids) has run, running it again
\* returns false for every item and changes nothing.
C1_NoDoubleChargeAsStated ==
  /\ \A s \in SubIdSpace : \A i, j \in Renewals(s) :
        i # j => history(s)[i].timestamp # history(s)[j].timestamp
  /\ (last.op = "batchCharge" /\ last.ok) => RerunIsVoid(last.arg[2])

\* C1 amended: the payments of a subscription are for successive periods that
\* do not overlap, every renewal pays for a period that had begun when it was
\* charged, and right after batchCharge(ids) has run, running it again returns
\* false for every item and changes nothing when no listed subscription is
\* due any more.
C1_NoDoubleChargePerPeriod ==
  /\ \A s \in SubIdSpace :
        /\ \A i \in 1..(Len(history(s)) - 1) : history(s)[i + 1].periodStart >= history(s)[i].periodEnd
        /\ \A i \in 1..Len(history(s)) :
              /\ history(s)[i].periodStart <= history(s)[i].timestamp
              /\ history(s)[i].periodEnd > history(s)[i].periodStart
  /\ (/\ last.op = "batchCharge" /\ last.ok
      /\ \A k \in 1..Len(last.arg[2]) :
            subscriptionExists(subscriptions, last.arg[2][k]) =>
              now < subscriptions[last.arg[2][k]].currentPeriodEnd)
     => RerunIsVoid(last.arg[2])

\* A batch naming a subscription twice renewed it twice at one timestamp.
C1_Witness ==
  /\ last.op = "batchCharge" /\ last.ok
  /\ \E s \in SubIdSpace :
        /\ Successes(last, s) = 2
        /\ \E i, j \in Renewals(s) :
              i # j /\ history(s)[i].timestamp = now /\ history(s)[j].timestamp = now

\* C2 as stated: every subscription's current period ends after it starts.
C2_PeriodEndAfterStart ==
  \A s \in SubIdSpace :
    subscriptionExists(subscriptions, s) =>
      subscriptions[s].currentPeriodEnd > subscriptions[s].currentPeriodStart

\* C3: a call that renews a subscription k times (k = 1 for charge, and one
\* per item returning true for batchCharge) moves its period start to the old
\* period end plus k - 1 intervals and its period end one interval further,
\* adds k to its payment count and appends k records, one per interval, each
\* for the period that follows the previous one.
RenewalStep(s, k) ==
  LET sub == subscriptions[s]
      interval == plans[sub.planId].interval
      old == history(s)
      new == subscriptionPayments'[s]
  IN /\ subscriptions'[s].currentPeriodStart = sub.currentPeriodEnd + (k - 1) * interval
     /\ subscriptions'[s].currentPeriodEnd = sub.currentPeriodEnd + k * interval
     /\ subscriptions'[s].paymentCount = sub.paymentCount + k
     /\ Len(new) = Len(old) + k
     /\ SubSeq(new, 1, Len(old)) = old
     /\ \A n \in 1..k :
           new[Len(old) + n] =
             PaymentRecord(plans[sub.planId].amount, now,
                           sub.currentPeriodEnd + (n - 1) * interval,
                           sub.currentPeriodEnd + n * interval)

C3_RenewalAdvancesOnePeriod ==
  [][\A s \in SubIdSpace : Successes(last', s) > 0 => RenewalStep(s, Successes(last', s))]_vars

\* A late charge succeeded and the subscription is still due.
C3_Witness ==
  /\ last.op = "charge" /\ last.ok /\ last.ret
  /\ now >= subscriptions[last.arg[2]].currentPeriodEnd
  /\ subscriptions[last.arg[2]].status = "Active"

\* C4: a subscription's status changes only along Active -> Paused (an
\* accepted pauseSubscription), Paused -> Active (an accepted
\* resumeSubscription), Active or Paused -> Canceled (an accepted immediate
\* cancelSubscription), Active -> Canceled (a charge of a due subscription
\* with cancel-at-period-end set) and Active -> Expired (a charge whose pull
\* failed); Canceled and Expired are never left; pause, resume and cancel
\* are accepted only in the statuses they start from and change no
\* subscription when they fail.
Charging(r) == r.ok /\ (r.op = "charge" \/ r.op = "batchCharge")

StatusEdge(s) ==
  LET old == subscriptions[s]
      new == subscriptions'[s].status
      r == last'
  IN \/ /\ old.status = "Active" /\ new = "Paused"
        /\ r.op = "pauseSubscription" /\ r.ok /\ r.arg[2] = s
     \/ /\ old.status = "Paused" /\ new = "Active"
        /\ r.op = "resumeSubscription" /\ r.ok /\ r.arg[2] = s
     \/ /\ old.status \in {"Active", "Paused"} /\ new = "Canceled"
        /\ r.op = "cancelSubscription" /\ r.ok /\ r.arg[2] = s /\ r.arg[3]
     \/ /\ old.status = "Active" /\ new = "Canceled"
        /\ Charging(r) /\ old.cancelAtPeriodEnd /\ isDue(now, old)
     \/ /\ old.status = "Active" /\ new = "Expired"
        /\ Charging(r) /\ ~old.cancelAtPeriodEnd /\ isDue(now, old)

LifecycleCall(r) == r.op \in {"pauseSubscription", "resumeSubscription", "cancelSubscription"}

C4_StatusEdges ==
  [][/\ \A s \in SubIdSpace :
          subscriptions'[s].status # subscriptions[s].status => StatusEdge(s)
     /\ (last'.op = "pauseSubscription" /\ last'.ok)
          => subscriptions[last'.arg[2]].status = "Active"
     /\ (last'.op = "resumeSubscription" /\ last'.ok)
          => subscriptions[last'.arg[2]].status = "Paused"
     /\ (last'.op = "cancelSubscription" /\ last'.ok)
          => subscriptions[last'.arg[2]].status \in {"Active", "Paused"}
     /\ (LifecycleCall(last') /\ ~last'.ok) => subscriptions' = subscriptions]_vars

\* cancelSubscription was refused on a subscription that had expired.
C4_Witness ==
  /\ last.op = "cancelSubscription" /\ ~last.ok /\ last.err = "Subscription not active"
  /\ \E s \in SubIdSpace :
        subscriptionExists(subscriptions, s) /\ subscriptions[s].status = "Expired"

\* C5 as stated: no step changes the payment count, the history or the period
\* fields of a subscription that is Expired, or pulls from its subscriber.
PulledFrom(r, a) == Charging(r) /\ \E i \in 1..Len(r.moved) : r.moved[i].from = a

C5_ExpiredIsNeverBilled ==
  [][\A s \in SubIdSpace :
        (subscriptionExists(subscriptions, s) /\ subscriptions[s].status = "Expired")
          => /\ subscriptions'[s].paymentCount = subscriptions[s].paymentCount
             /\ subscriptions'[s].currentPeriodStart = subscriptions[s].currentPeriodStart
             /\ subscriptions'[s].currentPeriodEnd = subscriptions[s].currentPeriodEnd
             /\ subscriptionPayments'[s] = subscriptionPayments[s]
             /\ ~PulledFrom(last', subscriptions[s].subscriber)]_vars

\* C6 as stated: once a deferred cancellation of a subscription was accepted,
\* its payment count never increases.
C6_NoChargeAfterDeferredCancel ==
  [][\A s \in cancelRequested :
        subscriptions'[s].paymentCount = subscriptions[s].paymentCount]_vars

\* C6 amended: while cancel-at-period-end is set, the payment count and the
\* history of the subscription stay as they are and nothing is pulled from
\* its subscriber; a charge that finds the subscription eligible cancels it
\* and returns false; the flag is cleared by an accepted resumeSubscription
\* only, and billing is open again from then on.
C6_NoChargeWhileCancelAtPeriodEnd ==
  [][\A s \in SubIdSpace :
        (subscriptionExists(subscriptions, s) /\ subscriptions[s].cancelAtPeriodEnd)
          => /\ subscriptions'[s].paymentCount = subscriptions[s].paymentCount
             /\ subscriptionPayments'[s] = subscriptionPayments[s]
             /\ ~PulledFrom(last', subscriptions[s].subscriber)
             /\ (last'.op = "charge" /\ last'.ok /\ last'.arg[2] = s
                 /\ \E accepts \in BOOLEAN : _canCharge(World(accepts), now, s)[1])
                  => (subscriptions'[s].status = "Canceled" /\ ~last'.ret)
             /\ ~subscriptions'[s].cancelAtPeriodEnd
                  => (last'.op = "resumeSubscription" /\ last'.ok /\ last'.arg[2] = s)]_vars

\* A charge canceled a subscription whose deferred cancellation was pending.
C6_Witness ==
  /\ last.op = "charge" /\ last.ok /\ ~last.ret
  /\ last.arg[2] \in cancelRequested
  /\ subscriptions[last.arg[2]].cancelAtPeriodEnd
  /\ subscriptions[last.arg[2]].status = "Canceled"
  /\ last.events = <<StatusChanged(last.arg[2], "Active", "Canceled")>>

\* C9: the payment count of every subscription is the length of its history,
\* and every step leaves the history it found as a prefix of the history it
\* leaves.
C9_CountIsHistoryLength ==
  /\ [](\A s \in SubIdSpace : subscriptions[s].paymentCount = Len(subscriptionPayments[s]))
  /\ [][\A s \in SubIdSpace :
          /\ Len(subscriptionPayments'[s]) >= Len(subscriptionPayments[s])
          /\ SubSeq(subscriptionPayments'[s], 1, Len(subscriptionPayments[s]))
               = subscriptionPayments[s]]_vars

\* A subscription that began with a trial has been renewed twice.
C9_Witness ==
  \E s \in SubIdSpace :
    /\ subscriptionExists(subscriptions, s)
    /\ Len(subscriptionPayments[s]) = 2
    /\ subscriptions[s].paymentCount = 2
    /\ subscriptionPayments[s][1].periodStart # subscriptions[s].startTime

\* C7 as stated: canCharge on an existing subscription returns the reason of
\* the first rule that matches, in the order PlanInactive, Canceled, Paused,
\* NotDue, InsufficientBalance, NotApproved, Success, and eligible exactly
\* with Success.
FirstMatch(s) ==
  LET sub == subscriptions[s]
      plan == plans[sub.planId]
  IN IF ~plan.active THEN "PlanInactive"
     ELSE IF sub.status = "Canceled" THEN "Canceled"
     ELSE IF sub.status = "Paused" THEN "Paused"
     ELSE IF now < sub.currentPeriodEnd THEN "NotDue"
     ELSE IF balanceOf(bal, sub.subscriber) < plan.amount THEN "InsufficientBalance"
     ELSE IF allowance(allow, sub.subscriber) < plan.amount THEN "NotApproved"
     ELSE "Success"

C7_FirstMatchOrder ==
  (last.op = "canCharge" /\ subscriptionExists(subscriptions, last.arg[1]))
    => last.ret = <<FirstMatch(last.arg[1]) = "Success", FirstMatch(last.arg[1])>>

\* C8 as stated: charge on a Canceled subscription returns false, reports
\* Canceled and leaves the period fields and the payment count alone.
ChargeOfCanceled(r) ==
  r.op = "charge" /\ r.ok /\ subscriptions[r.arg[2]].status = "Canceled"

BillingUntouched(s) ==
  /\ subscriptions'[s].currentPeriodStart = subscriptions[s].currentPeriodStart
  /\ subscriptions'[s].currentPeriodEnd = subscriptions[s].currentPeriodEnd
  /\ subscriptions'[s].paymentCount = subscriptions[s].paymentCount

C8_CanceledChargeReportsCanceled ==
  [][ChargeOfCanceled(last') =>
        /\ ~last'.ret
        /\ last'.events = <<PaymentFailed(last'.arg[2], "Canceled")>>
        /\ BillingUntouched(last'.arg[2])]_vars

\* C8 amended: charge on a Canceled subscription returns false, reports
\* PlanInactive when its plan is inactive and Canceled otherwise, moves
\* nothing and leaves the subscription and its history as they are.
C8_CanceledChargeIsRefused ==
  [][ChargeOfCanceled(last') =>
        /\ ~last'.ret
        /\ last'.events =
             <<PaymentFailed(last'.arg[2],
                             IF plans[subscriptions[last'.arg[2]].planId].active
                             THEN "Canceled" ELSE "PlanInactive")>>
        /\ last'.moved = <<>>
        /\ BillingUntouched(last'.arg[2])
        /\ subscriptions' = subscriptions
        /\ subscriptionPayments' = subscriptionPayments
        /\ <<bal, allow>>' = <<bal, allow>>]_vars

\* A Canceled subscription of an inactive plan was charged.
C8_Witness ==
  /\ last.op = "charge" /\ last.ok /\ ~last.ret
  /\ subscriptions[last.arg[2]].status = "Canceled"
  /\ last.events = <<PaymentFailed(last.arg[2], "PlanInactive")>>

\* C10: pay is accepted only for an order identifier that has no payment; the
\* payment of an order never changes once it is stored; a pay that fails
\* moves nothing and stores nothing; getPayment returns the stored payment.
C10_OneOrderOnePayment ==
  [][/\ (last'.op = "pay" /\ last'.ok) => ~payments[last'.arg[2]].paid
     /\ \A o \in OrderIds : payments[o].paid => payments'[o] = payments[o]
     /\ (last'.op = "pay" /\ ~last'.ok)
          => (last'.moved = <<>> /\ payments' = payments /\ <<bal, allow>>' = <<bal, allow>>)
     /\ last'.op = "getPayment" => last'.ret = payments[last'.arg[1]]]_vars

\* A second pay for an order that was paid earlier was refused.
C10_Witness ==
  /\ last.op = "pay" /\ ~last.ok /\ last.err = "Order already paid"
  /\ \E o \in OrderIds : payments[o].paid /\ payments[o].timestamp < now

\* C13: an accepted batchCharge(ids) has at most MAX_BATCH_SIZE items and
\* returns one result per item; result i and the state after item i are
\* those of charge on identifier i in the state item i - 1 left, an unknown
\* identifier giving false and leaving the state alone; the state after the
\* call is the state after the last item.  A batchCharge that is rejected
\* changes nothing.
RECURSIVE ItemByItem(_, _, _)
ItemByItem(W, ids, n) ==
  IF n = 0 THEN [W |-> W, results |-> <<>>]
  ELSE LET before == ItemByItem(W, ids, n - 1)
           known == subscriptionExists(before.W.subs, ids[n])
           out == chargeOutcome(before.W, now, ids[n])
       IN [W |-> IF known THEN out.W ELSE before.W,
           results |-> Append(before.results, IF known THEN out.ret ELSE FALSE)]

BatchIsItemByItem(r) ==
  \E accepts \in BOOLEAN :
    LET ids == r.arg[2]
        end == ItemByItem(World(accepts), ids, Len(ids))
    IN /\ Len(ids) <= MAX_BATCH_SIZE
       /\ Len(r.ret) = Len(ids)
       /\ r.ret = end.results
       /\ subscriptions' = end.W.subs
       /\ subscriptionPayments' = end.W.pays
       /\ bal' = end.W.L.bal
       /\ allow' = end.W.L.allow

C13_BatchIsItemByItem ==
  [][/\ (last'.op = "batchCharge" /\ last'.ok) => BatchIsItemByItem(last')
     /\ (last'.op = "batchCharge" /\ ~last'.ok)
          => /\ last'.err = "Batch too large"
             /\ <<subscriptions, subscriptionPayments, bal, allow, plans>>'
                  = <<subscriptions, subscriptionPayments, bal, allow, plans>>]_vars

\* A batch went on to renew a subscription after an unknown identifier.
C13_Witness ==
  /\ last.op = "batchCharge" /\ last.ok
  /\ last.arg[2] = <<0, 1>>
  /\ last.ret = <<FALSE, TRUE>>

\* C14: an accepted resumeSubscription was called by the subscriber on a
\* Paused subscription; it sets the status to Active, moves currentPeriodEnd
\* later by the time since pausedAt, so that as much of the period remains
\* as remained at the pause, clears pausedAt and cancel-at-period-end, and
\* leaves currentPeriodStart, the payment count and the history alone.
C14_ResumeExtendsPeriod ==
  [][(last'.op = "resumeSubscription" /\ last'.ok) =>
        LET s == last'.arg[2]
            old == subscriptions[s]
            new == subscriptions'[s]
        IN /\ old.status = "Paused" /\ last'.arg[1] = old.subscriber
           /\ new.status = "Active"
           /\ new.currentPeriodEnd = old.currentPeriodEnd + (now - old.pausedAt)
           /\ new.currentPeriodEnd - now = old.currentPeriodEnd - old.pausedAt
           /\ new.pausedAt = 0
           /\ ~new.cancelAtPeriodEnd
           /\ new.currentPeriodStart = old.currentPeriodStart
           /\ new.paymentCount = old.paymentCount
           /\ subscriptionPayments' = subscriptionPayments
           /\ new = [old EXCEPT !.status = "Active", !.currentPeriodEnd = new.currentPeriodEnd,
                                !.pausedAt = 0, !.cancelAtPeriodEnd = FALSE]]_vars

\* A subscription was resumed after a pause that lasted: its period now ends
\* later than the period its only payment was for.
C14_Witness ==
  /\ last.op = "resumeSubscription" /\ last.ok
  /\ subscriptions[last.arg[2]].paymentCount = 1
  /\ Len(subscriptionPayments[last.arg[2]]) = 1
  /\ subscriptions[last.arg[2]].currentPeriodEnd > subscriptionPayments[last.arg[2]][1].periodEnd

\* C15: an accepted subscribe(planId) at time t was made on an active plan
\* and adds exactly one subscription: Active, starting and beginning its
\* period at t, ending it at t + plan.interval, cancel-at-period-end unset,
\* payment count 1, with the one Payment Record of that period, entered once
\* in every index; the merchant receives exactly plan.amount, pulled from
\* the caller for a token plan, and taken from the value the caller sent,
\* the rest of which is returned, for a native plan.
Created(id, caller, planId, end, count) ==
  [id |-> id, planId |-> planId, subscriber |-> caller, status |-> "Active", startTime |-> now,
   currentPeriodStart |-> now, currentPeriodEnd |-> end, cancelAtPeriodEnd |-> FALSE,
   pausedAt |-> 0, paymentCount |-> count]

OneSubscriptionAdded(id, caller, planId) ==
  /\ ~subscriptionExists(subscriptions, id)
  /\ \A s \in SubIdSpace \ {id} :
        subscriptions'[s] = subscriptions[s] /\ subscriptionPayments'[s] = subscriptionPayments[s]
  /\ subscriptionIds' = Append(subscriptionIds, id)
  /\ userSubscriptions' = [userSubscriptions EXCEPT ![caller] = Append(@, id)]
  /\ planSubscriptions' = [planSubscriptions EXCEPT ![planId] = Append(@, id)]
  /\ plans' = [plans EXCEPT ![planId].subscriberCount = @ + 1]

FirstPaymentMade(r, caller, plan, value) ==
  IF plan.token = NoAddr
  THEN /\ value >= plan.amount
       /\ r.moved = <<Transfer("this", plan.merchant, NoAddr, plan.amount)>> \o
                    (IF value > plan.amount
                     THEN <<Transfer("this", caller, NoAddr, value - plan.amount)>> ELSE <<>>)
       /\ <<bal, allow>>' = <<bal, allow>>
  ELSE /\ r.moved = <<Transfer(caller, plan.merchant, plan.token, plan.amount)>>
       /\ bal' = [bal EXCEPT ![caller] = @ - plan.amount]
       /\ allow' = [allow EXCEPT ![caller] = @ - plan.amount]
       /\ bal[caller] >= plan.amount /\ allow[caller] >= plan.amount

C15_SubscribeCreatesPaidSubscription ==
  [][(last'.op = "subscribe" /\ last'.ok) =>
        LET caller == last'.arg[1]
            planId == last'.arg[2]
            plan == plans[planId]
            id == last'.ret
        IN /\ plan.active
           /\ OneSubscriptionAdded(id, caller, planId)
           /\ subscriptions'[id] = Created(id, caller, planId, now + plan.interval, 1)
           /\ subscriptionPayments'[id] =
                <<PaymentRecord(plan.amount, now, now, now + plan.interval)>>
           /\ FirstPaymentMade(last', caller, plan, last'.arg[4])]_vars

\* A subscription of a native plan was created with more value than the
\* amount, and the rest went back to the caller.
C15_Witness ==
  /\ last.op = "subscribe" /\ last.ok
  /\ plans[last.arg[2]].token = NoAddr
  /\ Len(last.moved) = 2
  /\ last.moved[2].to = last.arg[1]
  /\ subscriptions[last.ret].paymentCount = 1

\* C17 as stated: every accepted subscribeWithTrial(planId, trialDays) creates
\* a subscription that is Active, ends its period trialDays days from now,
\* has payment count 0 and no Payment Record, and moves nothing.
C17_TrialTakesNoPayment ==
  [][(last'.op = "subscribeWithTrial" /\ last'.ok) =>
        LET id == last'.ret
        IN /\ subscriptions'[id] =
                Created(id, last'.arg[1], last'.arg[2], now + last'.arg[3] * OneDay, 0)
           /\ subscriptionPayments'[id] = <<>>
           /\ last'.moved = <<>>
           /\ <<bal, allow>>' = <<bal, allow>>]_vars

\* C18: charge on an existing subscription that canCharge reports as not
\* eligible returns false, emits the one PaymentFailed event with the reason
\* canCharge reports, moves nothing and leaves every plan, subscription,
\* history and balance as it was.
Reported(s) == _canCharge(World(TRUE), now, s)

C18_IneligibleChargeChangesNothing ==
  [][(/\ last'.op = "charge" /\ last'.ok
      /\ ~Reported(last'.arg[2])[1])
     => /\ ~last'.ret
        /\ last'.events = <<PaymentFailed(last'.arg[2], Reported(last'.arg[2])[2])>>
        /\ last'.moved = <<>>
        /\ <<plans, planIds, subscriptions, subscriptionIds, userSubscriptions, planSubscriptions,
             subscriptionPayments, subscriptionNonce, payments, bal, allow>>'
             = <<plans, planIds, subscriptions, subscriptionIds, userSubscriptions, planSubscriptions,
                 subscriptionPayments, subscriptionNonce, payments, bal, allow>>]_vars

\* A due Active subscription whose subscriber lacks the balance was charged.
C18_Witness ==
  /\ last.op = "charge" /\ last.ok /\ ~last.ret
  /\ subscriptions[last.arg[2]].status = "Active"
  /\ last.events = <<PaymentFailed(last.arg[2], "InsufficientBalance")>>
  /\ Reported(last.arg[2]) = <<FALSE, "InsufficientBalance">>

\* C19: a charge that finds the subscription eligible, without a pending
\* cancellation, and returns false (its pull failed) emits the status change
\* and a PaymentFailed event, moves nothing, and changes the subscription's
\* status to Expired and nothing else; a subscription becomes Expired only
\* in a charge or batchCharge that found it Active, eligible and without a
\* pending cancellation.
C19_FailedPullExpires ==
  [][/\ (/\ last'.op = "charge" /\ last'.ok /\ ~last'.ret
         /\ Reported(last'.arg[2])[1]
         /\ ~subscriptions[last'.arg[2]].cancelAtPeriodEnd)
        => LET s == last'.arg[2]
           IN /\ last'.events = <<StatusChanged(s, subscriptions[s].status, "Expired"),
                                  PaymentFailed(s, "InsufficientBalance")>>
              /\ last'.moved = <<>>
              /\ subscriptions' = [subscriptions EXCEPT ![s].status = "Expired"]
              /\ <<subscriptionPayments, bal, allow>>' = <<subscriptionPayments, bal, allow>>
     /\ \A s \in SubIdSpace :
           (subscriptions'[s].status = "Expired" /\ subscriptions[s].status # "Expired")
             => /\ Charging(last')
                /\ subscriptions[s].status = "Active"
                /\ Reported(s)[1]
                /\ ~subscriptions[s].cancelAtPeriodEnd]_vars

\* A charge whose pull failed left the subscription Expired.
C19_Witness ==
  /\ last.op = "charge" /\ last.ok /\ ~last.ret
  /\ last.events = <<StatusChanged(last.arg[2], "Active", "Expired"),
                     PaymentFailed(last.arg[2], "InsufficientBalance")>>
  /\ subscriptions[last.arg[2]].status = "Expired"
  /\ subscriptions[last.arg[2]].paymentCount = Len(subscriptionPayments[last.arg[2]])

\* C16: a subscribe, pay or refund that fails leaves the plans, the
\* subscriptions and their indices, the histories, the one-time payments and
\* the balances exactly as they were; one that is accepted has made its
\* transfer in full: the value sent covered the amount (native asset), or
\* the amount was pulled from the caller, who held and had authorized it.
EngineState ==
  <<paused, tokenSupported, supportedTokens, plans, planIds, subscriptions, subscriptionIds,
    userSubscriptions, planSubscriptions, subscriptionPayments, payments, subscriptionNonce>>

TransferMade(r, from, to, token, amount, value) ==
  IF token = NoAddr
  THEN /\ value >= amount
       /\ r.moved[1] = Transfer("this", to, NoAddr, amount)
       /\ <<bal, allow>>' = <<bal, allow>>
  ELSE /\ r.moved = <<Transfer(from, to, token, amount)>>
       /\ balanceOf(bal, from) >= amount /\ allowance(allow, from) >= amount
       /\ balanceOf(bal', from) = balanceOf(bal, from) - (IF to = from THEN 0 ELSE amount)
       /\ allowance(allow', from) = allowance(allow, from) - amount

C16_FailedTransferChangesNothing ==
  [][/\ (last'.op \in {"subscribe", "pay", "refund"} /\ ~last'.ok)
          => (EngineState' = EngineState /\ <<bal, allow>>' = <<bal, allow>> /\ last'.moved = <<>>)
     /\ (last'.op = "subscribe" /\ last'.ok)
          => LET plan == plans[last'.arg[2]]
             IN TransferMade(last', last'.arg[1], plan.merchant, plan.token, plan.amount, last'.arg[4])
     /\ (last'.op = "pay" /\ last'.ok)
          => TransferMade(last', last'.arg[1], last'.arg[5], last'.arg[4], last'.arg[3], last'.arg[6])
     /\ (last'.op = "refund" /\ last'.ok)
          => LET sub == subscriptions[last'.arg[2]]
                 plan == plans[sub.planId]
             IN /\ TransferMade(last', last'.arg[1],
                                IF last'.arg[4] = NoAddr THEN sub.subscriber ELSE last'.arg[4],
                                plan.token, last'.arg[3], last'.arg[5])
                /\ EngineState' = EngineState]_vars

\* A subscribe that sent less than the amount failed, and nothing was created.
C16_Witness ==
  /\ last.op = "subscribe" /\ ~last.ok /\ last.err = "Insufficient payment"
  /\ subscriptionNonce = 0 /\ subscriptionIds = <<>>
  /\ plans[1].subscriberCount = 0

\* C20: a charge or a batchCharge never aborts because a call to the ledger
\* threw: a throwing balance query, authorization query or pull makes the
\* item false and the call returns.
C20_LedgerExceptionNeverAborts ==
  last.op \in {"charge", "batchCharge"} => last.err # LedgerThrew

\* A step the token takes from inside the pull of the call in flight.
NestedStep == inFlight # NoFrame /\ inFlight' = inFlight

ContractState ==
  <<paused, tokenSupported, supportedTokens, plans, planIds, subscriptions, subscriptionIds,
    userSubscriptions, planSubscriptions, subscriptionPayments, payments, subscriptionNonce,
    bal, allow, _status>>

\* C11: while a mutating operation is in flight, a call to any mutating
\* operation (createPlan, updatePlan, subscribe, subscribeWithTrial,
\* pauseSubscription, resumeSubscription, cancelSubscription, charge,
\* batchCharge, refund, pay) is rejected and changes nothing.
MutatingOps ==
  {"createPlan", "updatePlan", "subscribe", "subscribeWithTrial", "pauseSubscription",
   "resumeSubscription", "cancelSubscription", "charge", "batchCharge", "refund", "pay"}

C11_NoMutationWhileInFlight ==
  [][(NestedStep /\ last'.op \in MutatingOps)
       => (~last'.ok /\ ContractState' = ContractState)]_vars

\* C12: while a charge or a batchCharge is inside the pull of an item, a
\* call to charge, batchCharge, subscribe, subscribeWithTrial, pay or refund
\* reverts with the reentrancy error and changes nothing; no payment is
\* recorded, no balance moves and no subscription is created by anything
\* but the items of the call in flight.
GuardedOps == {"charge", "batchCharge", "subscribe", "subscribeWithTrial", "pay", "refund"}

C12_NoChargeInsideACharge ==
  [][/\ (NestedStep /\ last'.op \in GuardedOps)
          => /\ ~last'.ok
             /\ last'.err = "ReentrancyGuard: reentrant call"
             /\ ContractState' = ContractState
     /\ NestedStep
          => <<subscriptionPayments, payments, subscriptionNonce, subscriptionIds, bal, allow>>'
               = <<subscriptionPayments, payments, subscriptionNonce, subscriptionIds, bal, allow>>
     /\ (inFlight # NoFrame /\ inFlight' # inFlight)
          => \A s \in SubIdSpace :
               Len(subscriptionPayments'[s]) <= Len(subscriptionPayments[s]) + 1]_vars

\* A charge was refused between two items of a running batch: the first
\* item is paid and the second one is inside its pull.
C12_Witness ==
  /\ inFlight.op = "batchCharge" /\ inFlight.i = 2 /\ inFlight.results = <<TRUE>>
  /\ _status = _ENTERED
  /\ last.op = "charge" /\ ~last.ok /\ last.err = "ReentrancyGuard: reentrant call"

\* The value supplied with the call of receipt r, and what the contract has
\* kept of it when the call has returned.
RECURSIVE PaidOut(_)
PaidOut(moved) ==
  IF moved = <<>> THEN 0
  ELSE (IF Head(moved).from = "this" THEN Head(moved).amount ELSE 0) + PaidOut(Tail(moved))

ValueOf(r) ==
  IF r.op = "subscribe" THEN r.arg[4]
  ELSE IF r.op = "pay" THEN r.arg[6]
  ELSE IF r.op = "refund" THEN r.arg[5]
  ELSE 0

Kept(r) == ValueOf(r) - PaidOut(r.moved)

\* C21: after a successful subscribe, pay or refund, for a native or a token
\* asset, the contract holds no more value than before the call: all the
\* value supplied with the call has gone to the recipient or back to the
\* caller.
C21_EngineKeepsNothing ==
  (last.op \in {"subscribe", "pay", "refund"} /\ last.ok) => Kept(last) = 0

\* C22: a subscription is created only for a plan that exists and whose
\* asset is in the registry at that moment.
C22_SubscribeNeedsRegisteredAsset ==
  [][(last'.op \in {"subscribe", "subscribeWithTrial"} /\ last'.ok)
       => /\ plans[last'.arg[2]].merchant # NoAddr
          /\ tokenSupported[plans[last'.arg[2]].token]]_vars

\* C28: addSupportedToken succeeds only for a token that is not in the
\* registry and appends it; removeSupportedToken succeeds only for a token
\* other than the native one that is in the registry, and takes it out and
\* nothing else; a call that fails leaves the registry alone; the list holds
\* exactly the supported tokens, each once, and the native asset is among them.
Listed == {supportedTokens[i] : i \in 1..Len(supportedTokens)}

RegistryConsistent ==
  /\ tokenSupported[Native]
  /\ Listed = {t \in Assets : tokenSupported[t]}
  /\ \A i, j \in 1..Len(supportedTokens) : supportedTokens[i] = supportedTokens[j] => i = j

RegistryStep ==
  /\ (last'.op \in {"addSupportedToken", "removeSupportedToken"} /\ ~last'.ok)
       => registryVars' = registryVars
  /\ (last'.op = "addSupportedToken" /\ last'.ok)
       => /\ ~tokenSupported[last'.arg[2]]
          /\ tokenSupported' = [tokenSupported EXCEPT ![last'.arg[2]] = TRUE]
          /\ supportedTokens' = Append(supportedTokens, last'.arg[2])
  /\ (last'.op = "removeSupportedToken" /\ last'.ok)
       => /\ last'.arg[2] # Native
          /\ tokenSupported[last'.arg[2]]
          /\ tokenSupported' = [tokenSupported EXCEPT ![last'.arg[2]] = FALSE]
          /\ Len(supportedTokens') = Len(supportedTokens) - 1
  /\ (last'.op \notin {"addSupportedToken", "removeSupportedToken"})
       => registryVars' = registryVars

C28_RegistryIsConsistent == []RegistryConsistent /\ [][RegistryStep]_vars

\* The first of two tokens was removed: the second one took its place.
C28_Witness ==
  /\ last.op = "removeSupportedToken" /\ last.ok /\ last.arg[2] = Tok
  /\ supportedTokens = <<Native, Tok2>>
  /\ tokenSupported[Tok2] /\ ~tokenSupported[Tok]

\* The subscriptions of plans in the native asset.
NativeSubs ==
  {s \in SubIdSpace : subscriptionExists(subscriptions, s)
                        /\ plans[subscriptions[s].planId].token = NoAddr}

\* A charge of s is due on an Active subscription without cancel-at-period-end.
DueActive(s) ==
  /\ subscriptions[s].status = "Active"
  /\ ~(now < subscriptions[s].currentPeriodEnd)
  /\ ~subscriptions[s].cancelAtPeriodEnd

NoRenewal ==
  /\ last'.op = "charge" /\ last'.ok /\ last'.arg[2] \in NativeSubs => last'.ret = FALSE
  /\ last'.op = "batchCharge" /\ last'.ok
       => \A k \in 1..Len(last'.ret) : last'.arg[2][k] \in NativeSubs => last'.ret[k] = FALSE
  /\ \A s \in NativeSubs :
       /\ subscriptions'[s].paymentCount = subscriptions[s].paymentCount
       /\ subscriptionPayments'[s] = subscriptionPayments[s]
  /\ \A s \in SubIdSpace :
       (s \notin NativeSubs /\ subscriptionExists(subscriptions', s)
          /\ plans[subscriptions'[s].planId].token = NoAddr)
         => subscriptions'[s].paymentCount = (IF last'.op = "subscribeWithTrial" THEN 0 ELSE 1)

\* C23 as stated: every due charge on an Active subscription of a native
\* plan (cancel-at-period-end not set) ends with the subscription Expired.
C23_NativeDueChargeExpires ==
  [][\A s \in NativeSubs :
       (last'.op = "charge" /\ last'.ok /\ last'.arg[2] = s /\ DueActive(s))
         => subscriptions'[s].status = "Expired"]_vars

\* C23: for a plan in the native asset no charge and no batch item returns
\* true; the payment count of a subscription is 1 from its creation by
\* subscribe and 0 from its creation with a trial, and never changes; a due
\* charge on an Active subscription (cancel-at-period-end not set) ends with
\* the subscription Expired when the plan is active, and leaves it as it is
\* when the plan is not.
C23_NativePlanNeverRenews ==
  [][/\ NoRenewal
     /\ \A s \in NativeSubs :
          (last'.op = "charge" /\ last'.ok /\ last'.arg[2] = s /\ DueActive(s))
            => IF plans[subscriptions[s].planId].active
               THEN subscriptions'[s].status = "Expired"
               ELSE subscriptions'[s] = subscriptions[s]]_vars

\* A due charge has ended the paid subscription of an active native plan.
C23_Witness ==
  /\ last.op = "charge" /\ last.ok /\ last.ret = FALSE
  /\ last.arg[2] \in NativeSubs
  /\ subscriptions[last.arg[2]].status = "Expired"
  /\ subscriptions[last.arg[2]].paymentCount = 1
  /\ plans[1].active

\* The slice [offset, min(offset + limit, Len(seq))) of a sequence.
Slice(seq, offset, limit) ==
  [k \in 1..(IF offset >= Len(seq) THEN 0
             ELSE IF offset + limit > Len(seq) THEN Len(seq) - offset ELSE limit) |->
     seq[offset + k]]

\* The subscriptions canCharge accepts now, in creation order.
Eligible == SelectSeq(subscriptionIds, LAMBDA s : _canCharge(World(TRUE), now, s)[1])

\* C24: for any offset and limit, getPendingCharges returns the number of
\* chargeable subscriptions and the slice [offset, min(offset + limit, total))
\* of them in creation order, and getPaymentHistory returns the number of
\* payment records of the subscription and the same slice of their amounts
\* and timestamps in append order.
C24_PaginationIsExact ==
  /\ last.op = "getPendingCharges"
       => /\ last.ok
          /\ last.ret = <<Slice(Eligible, last.arg[1], last.arg[2]), Len(Eligible)>>
  /\ last.op = "getPaymentHistory"
       => /\ last.ok
          /\ LET page == Slice(subscriptionPayments[last.arg[1]], last.arg[2], last.arg[3])
             IN last.ret = <<[k \in 1..Len(page) |-> page[k].amount],
                             [k \in 1..Len(page) |-> page[k].timestamp],
                             Len(subscriptionPayments[last.arg[1]])>>

\* The arguments of createPlan are good: the id is free, the amount is
\* positive, the interval is a day or more, the merchant is not empty and
\* the asset is in the registry.
GoodPlan(in) ==
  /\ plans[in.planId].merchant = NoAddr
  /\ in.amount > 0
  /\ in.interval >= OneDay
  /\ in.merchant # NoAddr
  /\ tokenSupported[in.token]

Accepted(in) == createPlanError(in.planId, in.amount, in.token, in.interval, in.merchant) = ""

\* C25 as stated: createPlan fails exactly when its arguments are not good.
C25_CreatePlanFailsOnlyOnBadArguments ==
  \A in \in PlanInputs : Accepted(in) <=> GoodPlan(in)

\* C25: createPlan is accepted exactly when the contract is not paused and
\* its arguments are good; when it fails the plans are unchanged; when it is
\* accepted it adds exactly one plan, active, with subscriberCount 0 and the
\* given amount, asset, interval and merchant, under an id that was free; an
\* existing plan is never overwritten.
CreatePlanStep ==
  last'.op = "createPlan" =>
    /\ ~last'.ok => planVars' = planVars
    /\ last'.ok =>
         /\ plans[last'.arg[1]].merchant = NoAddr
         /\ plans' = [plans EXCEPT ![last'.arg[1]] =
                        [id |-> last'.arg[1], amount |-> last'.arg[2], token |-> last'.arg[3],
                         interval |-> last'.arg[4], merchant |-> last'.arg[5], active |-> TRUE,
                         subscriberCount |-> 0, createdAt |-> now]]
         /\ planIds' = Append(planIds, last'.arg[1])
    /\ \A p \in PlanIds : plans[p].merchant # NoAddr => plans'[p] = plans[p]

C25_CreatePlanValidates ==
  /\ [](\A in \in PlanInputs : Accepted(in) <=> (~paused /\ GoodPlan(in)))
  /\ [][CreatePlanStep]_vars

\* A second createPlan under an id in use was refused and the plan is intact.
C25_Witness ==
  /\ last.op = "createPlan" /\ ~last.ok /\ last.err = "Plan already exists"
  /\ plans[1].merchant # NoAddr /\ plans[1].active /\ plans[1].subscriberCount = 0
  /\ planIds = <<1>>

\* The role-restricted operations.
RoleOps ==
  {"updatePlan", "cancelSubscription", "pauseSubscription", "resumeSubscription", "refund",
   "addSupportedToken", "removeSupportedToken"}

\* The callers allowed to make the call of receipt r, in the state before it;
\* none when the plan or the subscription it names is absent.
Allowed(r) ==
  LET sub == subscriptions[r.arg[2]]
      merchant == plans[sub.planId].merchant
  IN CASE r.op = "updatePlan" ->
            IF plans[r.arg[2]].merchant = NoAddr THEN {} ELSE {plans[r.arg[2]].merchant, Owner}
       [] r.op \in {"cancelSubscription", "pauseSubscription"} ->
            IF sub.subscriber = NoAddr THEN {} ELSE {sub.subscriber, merchant}
       [] r.op = "resumeSubscription" ->
            IF sub.subscriber = NoAddr THEN {} ELSE {sub.subscriber}
       [] r.op = "refund" ->
            IF sub.subscriber = NoAddr THEN {} ELSE {merchant}
       [] OTHER -> {Owner}

Funded(token, amount, value) ==
  IF token = NoAddr THEN value >= amount
  ELSE balanceOf(bal, "M") >= amount /\ allowance(allow, "M") >= amount

\* C27: a refund by the plan's merchant of an amount > 0 that the merchant
\* has put up and the recipient accepts goes through whatever the
\* subscription was charged; it transfers the amount exactly once, to `to`
\* or to the subscriber when `to` is empty, the only other transfer being the
\* return of native value sent in excess; and it changes no plan,
\* subscription, payment record or one-time payment.
RefundStep ==
  (last'.op = "refund" /\ last'.ok) =>
    LET caller == last'.arg[1]
        sub == subscriptions[last'.arg[2]]
        plan == plans[sub.planId]
        amount == last'.arg[3]
        value == last'.arg[5]
        recipient == IF last'.arg[4] = NoAddr THEN sub.subscriber ELSE last'.arg[4]
    IN /\ caller = plan.merchant /\ amount > 0
       /\ EngineState' = EngineState
       /\ IF plan.token = NoAddr
          THEN /\ last'.moved[1] = Transfer("this", recipient, NoAddr, amount)
               /\ Tail(last'.moved) = IF value > amount
                                      THEN <<Transfer("this", caller, NoAddr, value - amount)>>
                                      ELSE <<>>
               /\ <<bal, allow>>' = <<bal, allow>>
          ELSE /\ last'.moved = <<Transfer(caller, recipient, plan.token, amount)>>
               /\ balanceOf(bal', caller) = balanceOf(bal, caller) - amount
               /\ balanceOf(bal', recipient) =
                    balanceOf(bal, recipient) + (IF recipient \in DOMAIN bal THEN amount ELSE 0)

C27_RefundIsOneTransfer ==
  /\ [](\A s \in SubIdSpace, in \in RefundInputs, v \in 0..(MaxAmount + 2) :
          (/\ subscriptions[s].subscriber # NoAddr
           /\ in.amount > 0
           /\ in.accepts
           /\ _status = _NOT_ENTERED
           /\ Funded(plans[subscriptions[s].planId].token, in.amount, v))
          => refundError(plans[subscriptions[s].planId].merchant, s, in.amount, v, in.accepts) = "")
  /\ [][RefundStep]_vars

\* A subscription that was never charged was refunded.
C27_Witness ==
  /\ last.op = "refund" /\ last.ok /\ last.arg[3] > 0
  /\ subscriptionPayments[last.arg[2]] = <<>>
  /\ subscriptions[last.arg[2]].paymentCount = 0

\* The number of times x occurs in seq.
Occurrences(seq, x) == Cardinality({i \in 1..Len(seq) : seq[i] = x})

\* The subscriptions ever created for plan p.
CreatedFor(p) ==
  {s \in DOMAIN subscriptions : subscriptions[s].subscriber # NoAddr /\ subscriptions[s].planId = p}

CountsConsistent ==
  /\ \A p \in PlanIds :
       /\ plans[p].subscriberCount = Cardinality(CreatedFor(p))
       /\ plans[p].subscriberCount = Len(planSubscriptions[p])
       /\ \A s \in DOMAIN subscriptions :
            Occurrences(planSubscriptions[p], s) = IF s \in CreatedFor(p) THEN 1 ELSE 0
  /\ \A a \in Addr, s \in DOMAIN subscriptions :
       Occurrences(userSubscriptions[a], s) =
         IF a # NoAddr /\ subscriptions[s].subscriber = a THEN 1 ELSE 0

CountsStep ==
  /\ \A p \in PlanIds : plans'[p].subscriberCount >= plans[p].subscriberCount
  /\ last'.op = "getSubscriptionsByPlan" =>
       (last'.ok /\ last'.ret[2] = plans[last'.arg[1]].subscriberCount)

\* C29: a plan's subscriberCount never decreases; in every state it is the
\* number of subscriptions ever created for the plan and the total that
\* getSubscriptionsByPlan reports; every subscription is once in the list
\* of its plan and once in the list of its subscriber, and in no other.
C29_SubscriberCountIsCreatedCount == []CountsConsistent /\ [][CountsStep]_vars

\* Plan 1 counts two subscriptions although one of them is canceled and the
\* other is expired or paused.
C29_Witness ==
  /\ plans[1].subscriberCount = 2
  /\ \E s, t \in CountIds :
       /\ s # t
       /\ subscriptions[s].status = "Canceled"
       /\ subscriptions[t].status \in {"Expired", "Paused"}

\* The latest call was a charge that renewed the subscription, at a time
\* within the interval that follows the period end it found.
JustRenewed ==
  /\ last.op = "charge" /\ last.ok /\ last.ret
  /\ LET sub == subscriptions[last.arg[2]]
     IN /\ sub.currentPeriodStart <= now
        /\ now < sub.currentPeriodStart + plans[sub.planId].interval

\* C30: after a successful renewal charge at a time t with
\* oldPeriodEnd <= t < oldPeriodEnd + plan.interval, charge on the same
\* subscription at time t returns false, reports NotDue, moves nothing and
\* changes no state, whatever the token would answer.
C30_RechargeIsNotDue ==
  JustRenewed =>
    \A accepts \in BOOLEAN :
      LET out == chargeOutcome(World(accepts), now, last.arg[2])
      IN /\ ~out.ret
         /\ out.events = <<PaymentFailed(last.arg[2], "NotDue")>>
         /\ out.moved = <<>>
         /\ out.W = World(accepts)

\* A renewal was charged at the period end and the subscriber could pay again.
C30_Witness ==
  /\ JustRenewed
  /\ now = subscriptions[last.arg[2]].currentPeriodStart
  /\ balanceOf(bal, subscriptions[last.arg[2]].subscriber) >= plans[1].amount
  /\ allowance(allow, subscriptions[last.arg[2]].subscriber) >= plans[1].amount

\* The call of receipt r charged subscription s, alone or as a batch item.
ChargedIn(r, s) ==
  \/ r.op = "charge" /\ r.ok /\ r.arg[2] = s
  \/ r.op = "batchCharge" /\ r.ok /\ \E i \in 1..Len(r.arg[2]) : r.arg[2][i] = s

\* The call of receipt r returned false for subscription s.
ReturnedFalseFor(r, s) ==
  IF r.op = "charge" THEN ~r.ret
  ELSE \A i \in 1..Len(r.arg[2]) : r.arg[2][i] = s => ~r.ret[i]

\* C31: a charge or a batchCharge item on an Active subscription whose
\* cancel-at-period-end flag is set returns false and pulls nothing; when
\* canCharge reports the subscription eligible its status becomes Canceled
\* and payment count, history, currentPeriodStart and currentPeriodEnd stay
\* as they were; when it is not eligible the subscription stays as it was,
\* Active.
FlaggedChargeStep ==
  \A s \in SubIdSpace :
    (/\ subscriptionExists(subscriptions, s)
     /\ subscriptions[s].cancelAtPeriodEnd
     /\ subscriptions[s].status = "Active"
     /\ ChargedIn(last', s))
    => /\ ReturnedFalseFor(last', s)
       /\ last'.moved = <<>>
       /\ <<bal, allow>>' = <<bal, allow>>
       /\ subscriptionPayments'[s] = subscriptionPayments[s]
       /\ subscriptions'[s] =
            IF _canCharge(World(TRUE), now, s)[1]
            THEN [subscriptions[s] EXCEPT !.status = "Canceled"]
            ELSE subscriptions[s]

C31_FlaggedChargeCancelsWithoutPull == [][FlaggedChargeStep]_vars

\* A batch item canceled a flagged subscription that had been charged before:
\* its count and period are those of the last payment.
C31_Witness ==
  /\ last.op = "batchCharge" /\ last.ok /\ last.arg[2] = <<1>> /\ last.ret = <<FALSE>>
  /\ subscriptions[1].cancelAtPeriodEnd /\ subscriptions[1].status = "Canceled"
  /\ subscriptions[1].paymentCount = 1 /\ Len(subscriptionPayments[1]) = 1
  /\ subscriptions[1].currentPeriodEnd <= now

\* C32: a subscription made by subscribe that was never paused and never
\* canceled at once keeps its schedule however late it is charged: its
\* currentPeriodEnd is startTime + paymentCount * plan.interval and its
\* period is one interval long.
C32_LateChargesKeepTheSchedule ==
  \A s \in SubIdSpace :
    subscriptionExists(subscriptions, s) =>
      LET sub == subscriptions[s]
          interval == plans[sub.planId].interval
      IN /\ sub.currentPeriodEnd = sub.startTime + sub.paymentCount * interval
         /\ sub.currentPeriodEnd - sub.currentPeriodStart = interval

\* A renewal was charged after its period had started.
C32_Witness ==
  /\ subscriptions[1].paymentCount >= 2
  /\ \E k \in 2..Len(subscriptionPayments[1]) :
       subscriptionPayments[1][k].timestamp > subscriptionPayments[1][k].periodStart

\* The fields of a plan that createPlan fixes.
Terms(plan) == <<plan.id, plan.amount, plan.token, plan.interval, plan.merchant, plan.createdAt>>

\* Every payment of an existing subscription, the first and the renewals,
\* is of the amount of its plan.
SameAmountThroughout ==
  \A s \in SubIdSpace :
    subscriptionExists(subscriptions, s) =>
      \A k \in 1..Len(subscriptionPayments[s]) :
        subscriptionPayments[s][k].amount = plans[subscriptions[s].planId].amount

PlanFrameStep ==
  /\ \A p \in PlanIds :
       plans[p].merchant # NoAddr =>
         /\ Terms(plans'[p]) = Terms(plans[p])
         /\ plans'[p].active # plans[p].active
              => (last'.op = "updatePlan" /\ last'.ok /\ last'.arg[2] = p)
         /\ plans'[p].subscriberCount # plans[p].subscriberCount
              => (last'.op \in {"subscribe", "subscribeWithTrial"} /\ last'.ok /\ last'.arg[2] = p)
  /\ \A s \in SubIdSpace :
       (subscriptionExists(subscriptions, s) /\ Len(subscriptionPayments'[s]) > Len(subscriptionPayments[s]))
         => /\ Len(last'.moved) = 1
            /\ last'.moved[1].amount = subscriptionPayments[s][1].amount

\* C33: once created, a plan keeps its id, amount, asset, interval, merchant
\* and creation time and stays in existence; its active flag changes in an
\* accepted updatePlan only and its subscriber count in an accepted subscribe
\* only; every renewal pulls the amount the subscription first paid.
C33_PlanTermsAreFixed == []SameAmountThroughout /\ [][PlanFrameStep]_vars

\* A subscription was renewed and a second createPlan under the id of its
\* plan was refused.
C33_Witness ==
  /\ last.op = "createPlan" /\ ~last.ok /\ last.err = "Plan already exists"
  /\ Len(subscriptionPayments[1]) >= 2
  /\ plans[1].subscriberCount = 1

\* charge(s) and batchCharge([s]) from the same state, time and ledger.
SingleBatchIsCharge(s, accepts, answers) ==
  LET W == WorldOf(accepts, answers)
      can == _canCharge(W, now, s)
      one == chargeOutcome(W, now, s)
      batch == batchOutcome(W, now, <<s>>)
  IN IF can[2] = LedgerThrew
     THEN batch.threw
     ELSE /\ ~batch.threw
          /\ batch.results = <<one.ret>>
          /\ batch.W = one.W
          /\ batch.moved = one.moved
          /\ IF can[1]
             THEN batch.events = one.events
             ELSE batch.events = <<>> /\ one.events = <<PaymentFailed(s, can[2])>>

\* C34: for every existing subscription s, in every state and for every
\* answer of the ledger, batchCharge([s]) returns the boolean charge(s)
\* returns and leaves the same subscriptions, histories, ledger and
\* transfers, and fails where charge fails; the events differ only by the
\* PaymentFailed that charge emits when s is not eligible.
C34_SingleBatchIsCharge ==
  \A s \in SubIdSpace, accepts \in BOOLEAN, answers \in BOOLEAN :
    subscriptionExists(subscriptions, s) => SingleBatchIsCharge(s, accepts, answers)

\* A subscription that both calls would renew, and one that both refuse.
C34_Witness ==
  /\ subscriptionExists(subscriptions, 1)
  /\ chargeOutcome(World(TRUE), now, 1).ret
  /\ batchOutcome(World(TRUE), now, <<1>>).results = <<TRUE>>
  /\ ~chargeOutcome(World(FALSE), now, 1).ret
  /\ batchOutcome(World(FALSE), now, <<1>>).results = <<FALSE>>

\* C35: the guard is held only while a guarded operation is in flight: when
\* no call is inside a pull _status is _NOT_ENTERED, whatever the guarded
\* calls before did (succeeded, returned false, failed), and a top-level
\* guarded call is never rejected as re-entrant.
GuardStep ==
  (inFlight = NoFrame /\ last'.op \in GuardedOps)
    => /\ last'.err # "ReentrancyGuard: reentrant call"
       /\ _status' = _NOT_ENTERED

C35_GuardIsReleased ==
  /\ [](inFlight = NoFrame <=> _status = _NOT_ENTERED)
  /\ [][GuardStep]_vars

\* A pay went through after a subscribe and a renewal had ended.
C35_Witness ==
  /\ last.op = "pay" /\ last.ok
  /\ subscriptionNonce = 1 /\ Len(subscriptionPayments[1]) >= 2
  /\ _status = _NOT_ENTERED

\* C36: canCharge does not report eligible for an identifier that belongs to
\* no subscription.
C36_AbsentIsNeverEligible ==
  [][(last'.op = "canCharge" /\ ~subscriptionExists(subscriptions, last'.arg[1]))
       => ~last'.ret[1]]_vars

\* The paged queries.
PagedOps == {"getPendingCharges", "getPaymentHistory", "getSubscriptionsByPlan"}

\* C37: for every offset and limit of the machine word, the largest limit
\* with an offset below the total included, a paged query returns: it does
\* not fail, and its total is the size of the collection it pages.
C37_PagedQueriesAlwaysReturn ==
  [][last'.op \in PagedOps =>
       /\ last'.ok
       /\ last'.op = "getPendingCharges" => last'.ret[2] = Len(Eligible)
       /\ last'.op = "getPaymentHistory" => last'.ret[3] = Len(subscriptionPayments[last'.arg[1]])
       /\ last'.op = "getSubscriptionsByPlan" => last'.ret[2] = Len(planSubscriptions[last'.arg[1]])]_vars

\* ------------------------------------------------------------------------
\* C38: getMode() is "stopped" exactly when isRunning() is false
\* ------------------------------------------------------------------------
\* C38: in every state of a watcher of any configured mode, getMode()
\* (currentMode) is "stopped" if and only if isRunning() (running) is false.
C38_StoppedIffNotRunning == (currentMode = "stopped") <=> ~running

\* ------------------------------------------------------------------------
\* C39: every confirmed block is scanned at most once
\* ------------------------------------------------------------------------
\* The polling loops of a running watcher.
ActiveLoops == IF running THEN Loops ELSE 0

\* No socket was ever opened: the watcher ran by start(), stop(), the polling
\* timer and check() alone.
PollingOnly == \A i \in 1..MaxSockets : sockets[i] = "none"

\* C39: under any interleaving of start(), stop(), the polling timer and
\* check(), at most one polling loop is active, no transfer is delivered
\* twice, and lastBlockNumber never decreases.
C39_EveryBlockScannedOnce ==
  /\ [](PollingOnly => ActiveLoops <= 1 /\ \A b \in 1..MaxHead : deliveries[b] <= 1)
  /\ [][PollingOnly' => lastBlockNumber' >= lastBlockNumber]_vars

====
